---------------------------- MODULE Spec2Model ----------------------------
(***************************************************************************)
(* A model of notebookmaker: the analysis of a PDF in chunks (with the     *)
(* message each chunk is sent in) and the aggregation of the chunk         *)
(* analyses, the dependency ordering of sections, the generation of a      *)
(* notebook from an analysis, the parser of the cell markup, the           *)
(* consolidation of imports, and process_lecture, which runs the two       *)
(* phases.  A text is the sequence of its lines (text.split("\n")), so the *)
(* empty string is <<"">>.                                                 *)
(***************************************************************************)
EXTENDS Integers, Sequences, FiniteSets, TLC

VARIABLES
    analysis,         \* the LectureAnalysis handed to the call
    min_priority,     \* generate_notebook_from_analysis(min_priority=...)
    notebook_type,    \* "instructor" | "student"
    caller,           \* which call is running: "order" | "generate" | "analyze"
                      \* | "parse" | "process"
    provider,         \* the provider= argument of the running call
    credentials,      \* the providers _discover_credentials finds a key for
    pc,               \* position of the running call
    dep_sections,     \* get_dependency_order: code_sections
    ordered,          \* get_dependency_order: ordered
    visited,          \* get_dependency_order: visited
    stack,            \* get_dependency_order: the frames of visit()
    oi,               \* get_dependency_order: index of the outer for loop
    code_sections,    \* generate_notebook_from_analysis: code_sections
    ordered_sections, \* generate_notebook_from_analysis: ordered_sections
    gi,               \* generate_notebook_from_analysis: index of the section loop
    all_cells_text,   \* generate_notebook_from_analysis: all_cells_text
    outcomes,         \* what each generate_notebook_for_section call did
    error,            \* the exception the call raised, or NoError
    notebook_file,    \* the file at output_path, or NoFile
    llm_calls,        \* number of llm.generate calls made
    image_chunks,     \* analyze_pdf: image_chunks (pages as numbers)
    chunk_results,    \* analyze_pdf: chunk_results
    actual_total_pages, \* analyze_pdf: actual_total_pages
    vision_calls,     \* each analyze_pdf_chunk call: its chunk_index, what it
                      \* raised, the content of its message, whether
                      \* llm.generate was invoked
    artifact_file,    \* the analysis JSON at output_path, or NoFile
    markup,           \* _parse_llm_response_to_notebook: llm_response
    nb_cells,         \* _parse_llm_response_to_notebook: the cells of nb
    nb_before,        \* notebook.cells when _consolidate_imports was last called
    input_file,       \* process_lecture: input_file (its path, whether it exists)
    analysis_provider,   \* process_lecture: analysis_provider
    generation_provider, \* process_lecture: generation_provider, or None
    lecture_pc,       \* process_lecture: position of the call
    loads,            \* number of load_analysis_from_file calls made
    generate_calls,   \* each generate_notebook_from_analysis call: its arguments
    notebooks,        \* the files written at the paths of the notebooks
    result            \* process_lecture: the dict returned, or None

orderVars == <<dep_sections, ordered, visited, stack, oi>>
genVars == <<code_sections, ordered_sections, gi, all_cells_text, outcomes,
             notebook_file, llm_calls>>
inputVars == <<analysis, min_priority, notebook_type, caller, provider,
               credentials>>
aggVars == <<image_chunks, chunk_results, actual_total_pages, vision_calls,
             artifact_file>>
parseVars == <<markup, nb_cells, nb_before>>
lectureVars == <<input_file, analysis_provider, generation_provider, lecture_pc,
                 loads, generate_calls, notebooks, result>>
vars == <<inputVars, pc, error, orderVars, genVars, aggVars, parseVars,
          lectureVars>>

NoError == "NoError"
NoFile == [exists |-> FALSE]
NoAnalysis == <<>>
None == "None"

(***************************************************************************)
(* Bounds of the model.                                                    *)
(***************************************************************************)
MaxSections == 3
MaxLines == 4
MaxPages == 3

(***************************************************************************)
(* Generic helpers on sequences.                                           *)
(***************************************************************************)
Range(s) == {s[i] : i \in 1..Len(s)}

(***************************************************************************)
(* models.py: Section, LectureAnalysis                                     *)
(***************************************************************************)
DefaultMinPriority == 5

\* Section; code_snippets, equations and concepts stay empty
MkSection(id, title, pages, e, deps) ==
    [section_id |-> id, title |-> title, pages |-> pages, has_code |-> e.has_code,
     priority |-> e.priority, dependencies |-> deps]

EmptyMetadata == <<>>

\* LectureAnalysis
MkAnalysis(lecture_title, total_pages, sections, metadata) ==
    [lecture_title |-> lecture_title, total_pages |-> total_pages,
     sections |-> sections, metadata |-> metadata]

\* key=lambda s: s.pages[0] if s.pages else 0
FirstPageKey(s) == IF s.pages # <<>> THEN s.pages[1] ELSE 0

\* sorted(s, key=...) is stable: a section comes after those with a smaller
\* key and after those with its own key that precede it in s
SortedByFirstPage(s) ==
    LET Before(j, i) ==
            \/ FirstPageKey(s[j]) < FirstPageKey(s[i])
            \/ FirstPageKey(s[j]) = FirstPageKey(s[i]) /\ j < i
        Rank(i) == Cardinality({j \in 1..Len(s) : Before(j, i)}) + 1
    IN [r \in 1..Len(s) |-> s[CHOOSE i \in 1..Len(s) : Rank(i) = r]]

\* get_code_sections without its sort: the sections stay in document order
GetCodeSectionsUnsorted(a, minp) ==
    SelectSeq(a.sections, LAMBDA s : s.has_code /\ s.priority >= minp)

\* LectureAnalysis.get_code_sections
GetCodeSections(a, minp) ==
    SortedByFirstPage(
        SelectSeq(a.sections, LAMBDA s : s.has_code /\ s.priority >= minp))

\* section_dict = {s.section_id: s for s in code_sections}: the last one wins
SectionDict(secs) ==
    [id \in {secs[i].section_id : i \in 1..Len(secs)} |->
        secs[CHOOSE i \in 1..Len(secs) :
                /\ secs[i].section_id = id
                /\ \A j \in (i + 1)..Len(secs) : secs[j].section_id # id]]

\* visit(section_id), up to the loop over the dependencies: the early return,
\* or visited.add and a new frame
VisitCall(id, vis, stk) ==
    IF id \in vis \/ id \notin DOMAIN SectionDict(dep_sections)
    THEN <<vis, stk>>
    ELSE <<vis \cup {id}, Append(stk, [section_id |-> id, dep |-> 1])>>

\* get_dependency_order, entry: code_sections = self.get_code_sections()
BeginDependencyOrder ==
    /\ dep_sections' = GetCodeSections(analysis, DefaultMinPriority)
    /\ ordered' = <<>>
    /\ visited' = {}
    /\ stack' = <<>>
    /\ oi' = 1

\* a call of get_dependency_order on its own
GetDependencyOrder ==
    /\ caller = "order"
    /\ pc = "start"
    /\ BeginDependencyOrder
    /\ pc' = "visit"
    /\ UNCHANGED <<inputVars, error, genVars, aggVars,
                   parseVars, lectureVars>>

\* the outer loop without the visited check of visit: a section a dependent
\* already brought in gets a second frame
VisitSectionAgain ==
    /\ pc = "visit"
    /\ stack = <<>>
    /\ oi <= Len(dep_sections)
    /\ visited' = visited \cup {dep_sections[oi].section_id}
    /\ stack' = Append(stack, [section_id |-> dep_sections[oi].section_id, dep |-> 1])
    /\ oi' = oi + 1
    /\ UNCHANGED <<inputVars, pc, error, dep_sections, ordered, genVars, aggVars,
                   parseVars, lectureVars>>

\* for section in code_sections: visit(section.section_id)
VisitSection ==
    /\ pc = "visit"
    /\ stack = <<>>
    /\ oi <= Len(dep_sections)
    /\ LET r == VisitCall(dep_sections[oi].section_id, visited, stack)
       IN /\ visited' = r[1]
          /\ stack' = r[2]
    /\ oi' = oi + 1
    /\ UNCHANGED <<inputVars, pc, error, dep_sections, ordered, genVars, aggVars,
                   parseVars, lectureVars>>

\* the loop over the dependencies without its call of visit
VisitDependencySkipped ==
    /\ pc = "visit"
    /\ stack # <<>>
    /\ LET top == stack[Len(stack)]
           deps == SectionDict(dep_sections)[top.section_id].dependencies
       IN /\ top.dep <= Len(deps)
          /\ stack' = [stack EXCEPT ![Len(stack)].dep = top.dep + 1]
    /\ UNCHANGED <<inputVars, pc, error, dep_sections, ordered, visited, oi,
                   genVars, aggVars,
                   parseVars, lectureVars>>

\* for dep_id in section.dependencies: visit(dep_id)
VisitDependency ==
    /\ pc = "visit"
    /\ stack # <<>>
    /\ LET top == stack[Len(stack)]
           deps == SectionDict(dep_sections)[top.section_id].dependencies
       IN /\ top.dep <= Len(deps)
          /\ LET r == VisitCall(deps[top.dep], visited,
                          [stack EXCEPT ![Len(stack)].dep = top.dep + 1])
             IN /\ visited' = r[1]
                /\ stack' = r[2]
    /\ UNCHANGED <<inputVars, pc, error, dep_sections, ordered, oi, genVars, aggVars,
                   parseVars, lectureVars>>

\* ordered.append(section), and visit returns
VisitAppend ==
    /\ pc = "visit"
    /\ stack # <<>>
    /\ LET top == stack[Len(stack)]
           section == SectionDict(dep_sections)[top.section_id]
       IN /\ top.dep > Len(section.dependencies)
          /\ ordered' = Append(ordered, section)
          /\ stack' = SubSeq(stack, 1, Len(stack) - 1)
    /\ UNCHANGED <<inputVars, pc, error, dep_sections, visited, oi, genVars, aggVars,
                   parseVars, lectureVars>>

\* return ordered, to a caller that asked for the order alone
ReturnOrdered ==
    /\ caller = "order"
    /\ pc = "visit"
    /\ stack = <<>>
    /\ oi > Len(dep_sections)
    /\ pc' = "ordered"
    /\ UNCHANGED <<inputVars, error, orderVars, genVars, aggVars,
                   parseVars, lectureVars>>

(***************************************************************************)
(* Lines of text.  A line is a string; what the code asks of a line        *)
(* (strip, startswith, a regular expression) is tabulated for the lines    *)
(* the model uses.                                                         *)
(***************************************************************************)
MarkdownMarker == "# %% [markdown]"
CodeMarker == "# %%"
\* the lexer of TLA+ has no backquote: BQ3 stands for three of them
Fence == "BQ3"
FencePython == "BQ3python"

\* lines that begin with "# ", and what is left of them after line[2:]
HashSpaceLines ==
    {"# # Lecture A", "# # Lecture B", "# # Unknown Lecture",
     "# This notebook contains code-focused examples from the lecture.",
     "# Run each cell in order to explore the concepts.",
     "# About c", "# About a", "# About d", "# About b", "# About e",
     "# %% [markdown]", "# %%", "# "}

DropTwo(line) ==
    CASE line = "# # Lecture A" -> "# Lecture A"
      [] line = "# # Lecture B" -> "# Lecture B"
      [] line = "# # Unknown Lecture" -> "# Unknown Lecture"
      [] line = "# This notebook contains code-focused examples from the lecture."
            -> "This notebook contains code-focused examples from the lecture."
      [] line = "# Run each cell in order to explore the concepts."
            -> "Run each cell in order to explore the concepts."
      [] line = "# About c" -> "About c"
      [] line = "# About a" -> "About a"
      [] line = "# About d" -> "About d"
      [] line = "# About b" -> "About b"
      [] line = "# About e" -> "About e"
      [] line = "# %% [markdown]" -> "%% [markdown]"
      [] line = "# %%" -> "%%"
      [] line = "# " -> ""

\* line.startswith("# "), line.startswith("#")
StartsWithHashSpace(line) == line \in HashSpaceLines
StartsWithHash(line) == line \in HashSpaceLines \cup {"#", "#!shebang"}

\* line.lstrip(), line.rstrip(), line.strip()
LStripLine(line) ==
    CASE line = "  # %%" -> "# %%"
      [] line = "    import os" -> "import os"
      [] line = "  " -> ""
      [] OTHER -> line

RStripLine(line) ==
    CASE line = "# %% [markdown] " -> "# %% [markdown]"
      [] line = "# " -> "#"
      [] line = "  " -> ""
      [] OTHER -> line

StripLine(line) == RStripLine(LStripLine(line))

IsBlankLine(line) == StripLine(line) = ""

\* "BQ3" in line, "BQ3python" in line
ContainsFence(line) == line \in {Fence, FencePython}
ContainsFencePython(line) == line = FencePython

\* re.match(r"^\s*(import|from)\s+", line)
ImportLines ==
    {"import os", "    import os", "from collections import Counter",
     "import numpy as np", "from the lecture"}
IsImportLine(line) == line \in ImportLines

\* sorted(collected_imports): the import lines in the order of str.__lt__
ImportLinesSorted ==
    <<"    import os", "from collections import Counter", "from the lecture",
      "import numpy as np", "import os">>

(***************************************************************************)
(* Texts: a text is the sequence of its lines.                             *)
(***************************************************************************)
EmptyText == <<"">>

\* "\n".join(lines)
JoinLines(lines) == IF lines = <<>> THEN EmptyText ELSE lines

RECURSIVE DropLeadingBlank(_)
DropLeadingBlank(lines) ==
    IF lines = <<>> THEN <<>>
    ELSE IF IsBlankLine(Head(lines)) THEN DropLeadingBlank(Tail(lines))
    ELSE lines

RECURSIVE DropTrailingBlank(_)
DropTrailingBlank(lines) ==
    IF lines = <<>> THEN <<>>
    ELSE IF IsBlankLine(lines[Len(lines)])
         THEN DropTrailingBlank(SubSeq(lines, 1, Len(lines) - 1))
    ELSE lines

\* text.strip(): the blank lines at both ends go, and so does the white space
\* at the start of the first line and at the end of the last
StripText(text) ==
    LET core == DropTrailingBlank(DropLeadingBlank(text))
    IN IF core = <<>> THEN EmptyText
       ELSE [i \in 1..Len(core) |->
                LET left == IF i = 1 THEN LStripLine(core[i]) ELSE core[i]
                IN IF i = Len(core) THEN RStripLine(left) ELSE left]

\* "\n\n".join(texts)
RECURSIVE JoinTexts(_)
JoinTexts(texts) ==
    IF texts = <<>> THEN EmptyText
    ELSE IF Len(texts) = 1 THEN texts[1]
    ELSE texts[1] \o <<"">> \o JoinTexts(Tail(texts))

\* the least and the greatest of a set of positions, 0 for none (find, rfind)
FirstIndex(positions) ==
    IF positions = {} THEN 0
    ELSE CHOOSE i \in positions : \A j \in positions : i <= j

LastIndex(positions) ==
    IF positions = {} THEN 0
    ELSE CHOOSE i \in positions : \A j \in positions : j <= i

\* the positions of the lines (or cells) that satisfy a test
FenceLines(text) == {at \in 1..Len(text) : ContainsFence(text[at])}
FencePythonLines(text) == {at \in 1..Len(text) : ContainsFencePython(text[at])}

(***************************************************************************)
(* generation.py: generate_notebook_for_section, after the answer of the model *)
(***************************************************************************)
\* notebook_cells[start:end].strip() with start just after the first fence
\* found (find) and end at the last "BQ3" (rfind); end > start exactly when
\* the last fence is on a later line
BetweenFirstAndLast(text, first) ==
    LET last == LastIndex(FenceLines(text))
    IN IF last > first THEN StripText(SubSeq(text, first + 1, last - 1))
       ELSE text

\* response.content.strip(), then "Remove markdown code blocks if present"
UnwrapResponse(content) ==
    LET notebook_cells == StripText(content)
    IN IF \E i \in 1..Len(notebook_cells) : ContainsFencePython(notebook_cells[i])
       THEN BetweenFirstAndLast(notebook_cells,
                                FirstIndex(FencePythonLines(notebook_cells)))
       ELSE IF \E i \in 1..Len(notebook_cells) : ContainsFence(notebook_cells[i])
       THEN BetweenFirstAndLast(notebook_cells,
                                FirstIndex(FenceLines(notebook_cells)))
       ELSE notebook_cells

(***************************************************************************)
(* generation.py: _parse_llm_response_to_notebook                          *)
(***************************************************************************)
NotBlank(line) == ~IsBlankLine(line)

\* re.search(r"BQ3(?:python)?\s*\n(.*?)\n" + "BQ3", content, re.DOTALL), group(1),
\* or NoMatch.  The match opens at the first fence; the greedy \s*\n runs to
\* the first line that is not blank, and the lazy group ends before the first
\* fence on a later line.  Without such a fence, the pattern still matches
\* with an empty group when the line that is not blank is itself a fence and
\* a blank line precedes it.
NoMatch == <<>>
CodeBlockMatch(content) ==
    LET open == FirstIndex(FenceLines(content))
    IN IF open = 0 \/ open = Len(content) THEN NoMatch
       ELSE LET rest == SubSeq(content, open + 1, Len(content))
                first == open + FirstIndex({at \in 1..Len(rest) : NotBlank(rest[at])})
                after == SubSeq(content, first + 1, Len(content))
                close == FirstIndex(FenceLines(after))
            IN IF close # 0 THEN SubSeq(content, first, first + close - 1)
               ELSE IF ContainsFence(content[first]) /\ first >= open + 2
                    THEN EmptyText
               ELSE NoMatch

\* the markdown branch of save_current_cell, for one line
MarkdownLine(line) ==
    IF StartsWithHashSpace(line) THEN DropTwo(line)
    ELSE IF StartsWithHash(line) THEN ""
    ELSE line

\* save_current_cell without "or not current_cell_lines": a marker with no
\* line after it leaves a cell of empty content
SaveCurrentCellEmpty(cells, current_cell_type, current_cell_lines) ==
    IF current_cell_type = None THEN cells
    ELSE Append(cells, [cell_type |-> current_cell_type,
                        source |-> JoinLines(current_cell_lines)])

\* save_current_cell
SaveCurrentCell(cells, current_cell_type, current_cell_lines) ==
    IF current_cell_type = None \/ current_cell_lines = <<>> THEN cells
    ELSE IF current_cell_type = "markdown"
         THEN Append(cells,
                [cell_type |-> "markdown",
                 source |-> [i \in 1..Len(current_cell_lines) |->
                                MarkdownLine(current_cell_lines[i])]])
    ELSE Append(cells, [cell_type |-> "code", source |-> current_cell_lines])

\* for line in lines: ..., then "Save the last cell"
RECURSIVE ScanLines(_, _, _, _)
ScanLines(lines, cells, current_cell_type, current_cell_lines) ==
    IF lines = <<>>
    THEN SaveCurrentCell(cells, current_cell_type, current_cell_lines)
    ELSE LET line == Head(lines)
         IN IF StripLine(line) = MarkdownMarker
            THEN ScanLines(Tail(lines),
                    SaveCurrentCell(cells, current_cell_type, current_cell_lines),
                    "markdown", <<>>)
            ELSE IF StripLine(line) = CodeMarker
            THEN ScanLines(Tail(lines),
                    SaveCurrentCell(cells, current_cell_type, current_cell_lines),
                    "code", <<>>)
            ELSE IF current_cell_type # None
            THEN ScanLines(Tail(lines), cells, current_cell_type,
                           Append(current_cell_lines, line))
            ELSE ScanLines(Tail(lines), cells, current_cell_type, current_cell_lines)

ErrorCell ==
    [cell_type |-> "markdown",
     source |-> <<"# Error", "", "Failed to parse notebook content.", "",
                  "Expected percent-formatted Python with # %% markers.">>]

\* _parse_llm_response_to_notebook without "if not cells": no error cell
ParseLlmResponseToNotebookNoErrorCell(llm_response) ==
    LET stripped == StripText(llm_response)
        code_block_match == CodeBlockMatch(stripped)
        content == IF code_block_match # NoMatch
                   THEN StripText(code_block_match) ELSE stripped
    IN ScanLines(content, <<>>, None, <<>>)

\* _parse_llm_response_to_notebook: the cells of the notebook
ParseLlmResponseToNotebook(llm_response) ==
    LET stripped == StripText(llm_response)
        code_block_match == CodeBlockMatch(stripped)
        content == IF code_block_match # NoMatch
                   THEN StripText(code_block_match) ELSE stripped
        cells == ScanLines(content, <<>>, None, <<>>)
    IN IF cells = <<>> THEN <<ErrorCell>> ELSE cells

\* the call of _parse_llm_response_to_notebook on a text
ParseLlmResponse ==
    /\ caller = "parse"
    /\ pc = "start"
    /\ nb_cells' = ParseLlmResponseToNotebook(markup)
    /\ pc' = "done"
    /\ UNCHANGED <<inputVars, error, orderVars, genVars, aggVars, markup,
                   nb_before, lectureVars>>

(***************************************************************************)
(* generation.py: _consolidate_imports                                     *)
(***************************************************************************)
IsCodeCell(cell) == cell.cell_type = "code"

\* the import lines taken out of the markdown cells as well
RemoveImportsOfAnyCell(cell) ==
    [cell EXCEPT !.source = JoinLines(SelectSeq(cell.source,
                                LAMBDA line : ~IsImportLine(line)))]

\* the first loop: every code cell loses its import lines
RemoveImports(cell) ==
    IF IsCodeCell(cell)
    THEN [cell EXCEPT !.source = JoinLines(SelectSeq(cell.source,
                                     LAMBDA line : ~IsImportLine(line)))]
    ELSE cell

CollectedImports(cells) ==
    UNION {{cells[i].source[k] : k \in {k \in 1..Len(cells[i].source) :
                                           IsImportLine(cells[i].source[k])}} :
           i \in {i \in 1..Len(cells) : IsCodeCell(cells[i])}}

\* cell.source.strip() is not empty
HasContent(cell) == \E k \in 1..Len(cell.source) : ~IsBlankLine(cell.source[k])

\* the imports cell put after the last cell
ConsolidateImportsAppended(cells) ==
    LET collected_imports == CollectedImports(cells)
        stripped == [i \in 1..Len(cells) |-> RemoveImports(cells[i])]
        imports_cell ==
            [cell_type |-> "code",
             source |-> SelectSeq(ImportLinesSorted,
                                  LAMBDA line : line \in collected_imports)]
        inserted == IF collected_imports # {}
                    THEN stripped \o <<imports_cell>> ELSE stripped
    IN SelectSeq(inserted, HasContent)

\* without the last statement: the cells left blank stay in the notebook
ConsolidateImportsKeepingBlankCells(cells) ==
    LET first_code_cell_idx == FirstIndex({at \in 1..Len(cells) : IsCodeCell(cells[at])})
        collected_imports == CollectedImports(cells)
        stripped == [i \in 1..Len(cells) |-> RemoveImports(cells[i])]
        imports_cell ==
            [cell_type |-> "code",
             source |-> SelectSeq(ImportLinesSorted,
                                  LAMBDA line : line \in collected_imports)]
    IN IF collected_imports # {} /\ first_code_cell_idx # 0
       THEN SubSeq(stripped, 1, first_code_cell_idx - 1)
            \o <<imports_cell>>
            \o SubSeq(stripped, first_code_cell_idx, Len(stripped))
       ELSE stripped

ConsolidateImports(cells) ==
    LET first_code_cell_idx == FirstIndex({at \in 1..Len(cells) : IsCodeCell(cells[at])})
        collected_imports == CollectedImports(cells)
        stripped == [i \in 1..Len(cells) |-> RemoveImports(cells[i])]
        imports_cell ==
            [cell_type |-> "code",
             source |-> SelectSeq(ImportLinesSorted,
                                  LAMBDA line : line \in collected_imports)]
        inserted ==
            IF collected_imports # {} /\ first_code_cell_idx # 0
            THEN SubSeq(stripped, 1, first_code_cell_idx - 1)
                 \o <<imports_cell>>
                 \o SubSeq(stripped, first_code_cell_idx, Len(stripped))
            ELSE stripped
    IN SelectSeq(inserted, HasContent)

\* a call of _consolidate_imports on the notebook, which it changes in place;
\* the notebook it returns can be given to it again
ConsolidateImportsCall ==
    /\ caller = "consolidate"
    /\ pc \in {"start", "done"}
    /\ nb_before' = nb_cells
    /\ nb_cells' = ConsolidateImports(nb_cells)
    /\ pc' = IF pc = "start" THEN "done" ELSE "again"
    /\ UNCHANGED <<inputVars, error, orderVars, genVars, aggVars, markup,
                   lectureVars>>

(***************************************************************************)
(* llm: get_provider(provider) builds the provider, and LLMProvider.__init__*)
(* raises ValueError("No API key found ...") when _discover_credentials     *)
(* finds none.                                                              *)
(***************************************************************************)
CredentialsMissing == "ValueError: No API key found"
HasCredentials == provider \in credentials

(***************************************************************************)
(* generation.py: generate_notebook_from_analysis                          *)
(***************************************************************************)
\* f"# # {analysis.lecture_title}"
TitleHeading(lecture_title) ==
    CASE lecture_title = "Lecture A" -> "# # Lecture A"
      [] lecture_title = "Lecture B" -> "# # Lecture B"
      [] lecture_title = "Unknown Lecture" -> "# # Unknown Lecture"

\* title_cell: the literal ends with a newline, so its last line is empty
TitleCell(lecture_title) ==
    <<MarkdownMarker,
      TitleHeading(lecture_title),
      "#",
      "# This notebook contains code-focused examples from the lecture.",
      "# Run each cell in order to explore the concepts.",
      "">>

\* [s for s in analysis.get_dependency_order() if s in code_sections]
OrderedSections(dependency_order, cs) ==
    SelectSeq(dependency_order, LAMBDA s : s \in Range(cs))

\* generate_notebook_from_analysis, entry: get_code_sections(min_priority),
\* then the call of get_dependency_order
GenerateNotebookFromAnalysis ==
    /\ caller = "generate"
    /\ pc = "start"
    /\ code_sections' = GetCodeSections(analysis, min_priority)
    /\ BeginDependencyOrder
    /\ pc' = "visit"
    /\ UNCHANGED <<inputVars, error, ordered_sections, gi, all_cells_text,
                   outcomes, notebook_file, llm_calls, aggVars,
                   parseVars, lectureVars>>

DependencyOrderReturns ==
    /\ caller = "generate"
    /\ pc = "visit"
    /\ stack = <<>>
    /\ oi > Len(dep_sections)

\* generate_notebook_from_analysis without the check of ordered_sections: the
\* loop begins over no section
RaiseNoCodeSectionsMissing ==
    /\ DependencyOrderReturns
    /\ OrderedSections(ordered, code_sections) = <<>>
    /\ ordered_sections' = <<>>
    /\ all_cells_text' = <<TitleCell(analysis.lecture_title)>>
    /\ gi' = 1
    /\ pc' = "loop"
    /\ UNCHANGED <<inputVars, error, orderVars, code_sections, outcomes,
                   notebook_file, llm_calls, aggVars,
                   parseVars, lectureVars>>

\* if not ordered_sections: raise ValueError("No code sections found ...")
RaiseNoCodeSections ==
    /\ DependencyOrderReturns
    /\ OrderedSections(ordered, code_sections) = <<>>
    /\ ordered_sections' = <<>>
    /\ error' = "ValueError: No code sections found"
    /\ pc' = "raised"
    /\ UNCHANGED <<inputVars, orderVars, code_sections, gi, all_cells_text,
                   outcomes, notebook_file, llm_calls, aggVars,
                   parseVars, lectureVars>>

\* all_cells_text = [title_cell], and the loop over ordered_sections begins
BeginSectionLoop ==
    /\ DependencyOrderReturns
    /\ OrderedSections(ordered, code_sections) # <<>>
    /\ ordered_sections' = OrderedSections(ordered, code_sections)
    /\ all_cells_text' = <<TitleCell(analysis.lecture_title)>>
    /\ gi' = 1
    /\ pc' = "loop"
    /\ UNCHANGED <<inputVars, error, orderVars, code_sections, outcomes,
                   notebook_file, llm_calls, aggVars,
                   parseVars, lectureVars>>

\* generate_notebook_for_section returns: llm.generate answered with one of
\* responses[section_id], and all_cells_text.append(section_cells)
GenerateSection(responses) ==
    /\ pc = "loop"
    /\ gi <= Len(ordered_sections)
    /\ HasCredentials
    /\ \E content \in responses[ordered_sections[gi].section_id] :
          /\ all_cells_text' = Append(all_cells_text, UnwrapResponse(content))
          /\ outcomes' = Append(outcomes,
                [section_id |-> ordered_sections[gi].section_id,
                 raised |-> None,
                 section_cells |-> UnwrapResponse(content)])
    /\ llm_calls' = llm_calls + 1
    /\ gi' = gi + 1
    /\ UNCHANGED <<inputVars, pc, error, orderVars, code_sections, ordered_sections,
                   notebook_file, aggVars,
                   parseVars, lectureVars>>

\* generate_notebook_for_section raises, in get_provider (no credentials,
\* before any call) or in llm.generate: except Exception ... continue
SectionExceptions == IF HasCredentials THEN {"LLMFailure"} ELSE {CredentialsMissing}

\* the loop without its try/except: the exception of a section leaves the call
GenerateSectionFailsPropagates ==
    /\ pc = "loop"
    /\ gi <= Len(ordered_sections)
    /\ \E e \in SectionExceptions :
          /\ outcomes' = Append(outcomes,
                [section_id |-> ordered_sections[gi].section_id,
                 raised |-> e,
                 section_cells |-> <<>>])
          /\ llm_calls' = IF e = "LLMFailure" THEN llm_calls + 1 ELSE llm_calls
          /\ error' = e
    /\ pc' = "raised"
    /\ UNCHANGED <<inputVars, orderVars, code_sections, ordered_sections, gi,
                   all_cells_text, notebook_file, aggVars,
                   parseVars, lectureVars>>

GenerateSectionFails ==
    /\ pc = "loop"
    /\ gi <= Len(ordered_sections)
    /\ \E e \in SectionExceptions :
          /\ outcomes' = Append(outcomes,
                [section_id |-> ordered_sections[gi].section_id,
                 raised |-> e,
                 section_cells |-> <<>>])
          /\ llm_calls' = IF e = "LLMFailure" THEN llm_calls + 1 ELSE llm_calls
    /\ gi' = gi + 1
    /\ UNCHANGED <<inputVars, pc, error, orderVars, code_sections, ordered_sections,
                   all_cells_text, notebook_file, aggVars,
                   parseVars, lectureVars>>

\* after the loop: join, parse, consolidate for the instructor, write
\* the imports consolidated whatever the kind of the notebook
NotebookCellsConsolidated(texts, kind) ==
    ConsolidateImports(ParseLlmResponseToNotebook(JoinTexts(texts)))

NotebookCells(texts, kind) ==
    LET notebook == ParseLlmResponseToNotebook(JoinTexts(texts))
    IN IF kind = "instructor" THEN ConsolidateImports(notebook) ELSE notebook

WriteNotebook ==
    /\ pc = "loop"
    /\ gi > Len(ordered_sections)
    /\ notebook_file' = [exists |-> TRUE,
                         cells |-> NotebookCells(all_cells_text, notebook_type)]
    /\ pc' = "done"
    /\ UNCHANGED <<inputVars, error, orderVars, code_sections, ordered_sections, gi,
                   all_cells_text, outcomes, llm_calls, aggVars,
                   parseVars, lectureVars>>

(***************************************************************************)
(* vision.py: extract_pdf_images; analysis.py: aggregate_chunk_analyses,   *)
(* analyze_pdf.  A page image is the number of its page; a chunk result is *)
(* the dict json.loads returned.                                           *)
(***************************************************************************)
DefaultChunkSize == 10

Min(a, b) == IF a <= b THEN a ELSE b

\* for i in range(0, len(images), chunk_size): chunks.append(images[i : i + chunk_size])
ExtractPdfImages(pages, chunk_size) ==
    [k \in 1..((pages + chunk_size - 1) \div chunk_size) |->
        [j \in 1..Min(chunk_size, pages - (k - 1) * chunk_size) |->
            (k - 1) * chunk_size + j]]

\* sum(len(chunk) for chunk in image_chunks)
RECURSIVE SumOfLengths(_)
SumOfLengths(chunks) ==
    IF chunks = <<>> THEN 0 ELSE Len(Head(chunks)) + SumOfLengths(Tail(chunks))

\* dict.get(key, default)
Get(dict, key, default) == IF key \in DOMAIN dict THEN dict[key] ELSE default

\* the loop over the sections where a section_id already seen replaces the
\* section kept for it
RECURSIVE CollectChunkSectionsLastWins(_, _, _)
CollectChunkSectionsLastWins(sections, seen_ids, all_sections) ==
    IF sections = <<>> THEN <<seen_ids, all_sections>>
    ELSE LET section == Head(sections)
         IN IF section.section_id \in seen_ids
            THEN CollectChunkSectionsLastWins(Tail(sections), seen_ids,
                    [k \in 1..Len(all_sections) |->
                        IF all_sections[k].section_id = section.section_id
                        THEN section ELSE all_sections[k]])
            ELSE CollectChunkSectionsLastWins(Tail(sections),
                                              seen_ids \cup {section.section_id},
                                              Append(all_sections, section))

\* for section in sections: skip a section_id already seen, else add and append
RECURSIVE CollectChunkSections(_, _, _)
CollectChunkSections(sections, seen_ids, all_sections) ==
    IF sections = <<>> THEN <<seen_ids, all_sections>>
    ELSE LET section == Head(sections)
         IN IF section.section_id \in seen_ids
            THEN CollectChunkSections(Tail(sections), seen_ids, all_sections)
            ELSE CollectChunkSections(Tail(sections),
                                      seen_ids \cup {section.section_id},
                                      Append(all_sections, section))

\* for i, chunk_result in enumerate(chunk_results): ...
RECURSIVE CollectAllSections(_, _, _)
CollectAllSections(results, seen_ids, all_sections) ==
    IF results = <<>> THEN all_sections
    ELSE LET r == CollectChunkSections(Get(Head(results), "sections", <<>>),
                                       seen_ids, all_sections)
         IN CollectAllSections(Tail(results), r[1], r[2])

\* aggregate_chunk_analyses with the title and metadata of the last chunk
AggregateChunkAnalysesLastChunk(results, total_pages) ==
    MkAnalysis(Get(results[Len(results)], "lecture_title", "Unknown Lecture"),
               total_pages,
               CollectAllSections(results, {}, <<>>),
               Get(results[Len(results)], "metadata", EmptyMetadata))

\* aggregate_chunk_analyses with the page count the first chunk reports
AggregateChunkAnalysesChunkPages(results, total_pages) ==
    MkAnalysis(Get(results[1], "lecture_title", "Unknown Lecture"),
               Get(results[1], "total_pages", 0),
               CollectAllSections(results, {}, <<>>),
               Get(results[1], "metadata", EmptyMetadata))

\* aggregate_chunk_analyses, for one chunk result or more
AggregateChunkAnalyses(results, total_pages) ==
    MkAnalysis(Get(results[1], "lecture_title", "Unknown Lecture"),
               total_pages,
               CollectAllSections(results, {}, <<>>),
               Get(results[1], "metadata", EmptyMetadata))

\* analyze_pdf, entry: the pages are extracted and counted
AnalyzePdf(page_counts, chunk_sizes) ==
    /\ caller = "analyze"
    /\ pc = "start"
    /\ \E pages \in page_counts, chunk_size \in chunk_sizes :
          /\ image_chunks' = ExtractPdfImages(pages, chunk_size)
          /\ actual_total_pages' = SumOfLengths(ExtractPdfImages(pages, chunk_size))
    /\ chunk_results' = <<>>
    /\ pc' = "chunks"
    /\ UNCHANGED <<inputVars, error, orderVars, genVars, vision_calls,
                   artifact_file,
                   parseVars, lectureVars>>

\* for i, images in enumerate(image_chunks): the chunk_index of the next call
NextChunkIndex == Len(chunk_results)

\* what analyze_pdf_chunk raises once the provider is built: llm.generate
\* fails, or json.loads rejects the unwrapped response
ChunkExceptions == {"LLMFailure", "ValueError: LLM returned invalid JSON"}

\* the branches of "if provider == ...": the providers a message is built for
VisionProviders == {"google", "anthropic", "openai"}
VisionNotSupported == "ValueError: Vision analysis not yet supported for provider"

\* content_parts: the prompt, then one part for each image of the chunk; the
\* form of the parts is the provider's, an image is named by its page
TextPart(p) ==
    IF p = "google" THEN [type |-> "str"] ELSE [type |-> "text"]

ImagePart(p, img) ==
    [type |-> CASE p = "google" -> "PIL.Image"
                [] p = "anthropic" -> "image"
                [] p = "openai" -> "image_url",
     page |-> img]

\* the images put before the prompt
ContentPartsImagesFirst(p, images) ==
    [j \in 1..Len(images) |-> ImagePart(p, images[j])] \o <<TextPart(p)>>

ContentParts(p, images) ==
    <<TextPart(p)>> \o [j \in 1..Len(images) |-> ImagePart(p, images[j])]

\* for i, images in enumerate(image_chunks): the images of the next call
NextImages == image_chunks[NextChunkIndex + 1]

\* analyze_pdf_chunk returns the dict of the next chunk
AnalyzeChunk(answers) ==
    /\ pc = "chunks"
    /\ Len(chunk_results) < Len(image_chunks)
    /\ HasCredentials
    /\ provider \in VisionProviders
    /\ \E chunk_analysis \in answers :
          chunk_results' = Append(chunk_results, chunk_analysis)
    /\ vision_calls' = Append(vision_calls,
                              [chunk_index |-> NextChunkIndex, raised |-> None,
                               content |-> ContentParts(provider, NextImages),
                               generated |-> TRUE])
    /\ UNCHANGED <<inputVars, pc, error, orderVars, genVars, image_chunks,
                   actual_total_pages, artifact_file,
                   parseVars, lectureVars>>

\* how far a call that raises gets: get_provider raises without credentials;
\* then the else branch raises for a provider without a message form, before
\* llm.generate; the other failures are those of llm.generate and after
ChunkGenerateReached == HasCredentials /\ provider \in VisionProviders

ChunkFailures ==
    IF ~HasCredentials THEN {CredentialsMissing}
    ELSE IF provider \notin VisionProviders THEN {VisionNotSupported}
    ELSE ChunkExceptions

ChunkContentAtFailure ==
    IF ChunkGenerateReached THEN ContentParts(provider, NextImages) ELSE <<>>

\* analyze_pdf with "chunk_results.append({})" in place of "raise": the loop
\* goes on to the next chunk
AnalyzeChunkFailsSwallowed ==
    /\ pc = "chunks"
    /\ Len(chunk_results) < Len(image_chunks)
    /\ \E e \in ChunkFailures :
          vision_calls' = Append(vision_calls,
                                 [chunk_index |-> NextChunkIndex, raised |-> e,
                                  content |-> ChunkContentAtFailure,
                                  generated |-> ChunkGenerateReached])
    /\ chunk_results' = Append(chunk_results, <<>>)
    /\ UNCHANGED <<inputVars, pc, error, orderVars, genVars, image_chunks,
                   actual_total_pages, artifact_file,
                   parseVars, lectureVars>>

\* analyze_pdf_chunk raises: except Exception ... raise
AnalyzeChunkFails ==
    /\ pc = "chunks"
    /\ Len(chunk_results) < Len(image_chunks)
    /\ \E e \in ChunkFailures :
          /\ error' = e
          /\ vision_calls' = Append(vision_calls,
                                    [chunk_index |-> NextChunkIndex, raised |-> e,
                                     content |-> ChunkContentAtFailure,
                                     generated |-> ChunkGenerateReached])
    /\ pc' = "raised"
    /\ UNCHANGED <<inputVars, orderVars, genVars, image_chunks, chunk_results,
                   actual_total_pages, artifact_file,
                   parseVars, lectureVars>>

\* aggregate_chunk_analyses without its first check, reading the title and
\* the metadata with their defaults: the document of no section is saved
RaiseNoChunkResultsMissing ==
    /\ pc = "chunks"
    /\ Len(chunk_results) = Len(image_chunks)
    /\ chunk_results = <<>>
    /\ analysis' = MkAnalysis("Unknown Lecture", actual_total_pages, <<>>,
                              EmptyMetadata)
    /\ artifact_file' =
          [exists |-> TRUE,
           content |-> MkAnalysis("Unknown Lecture", actual_total_pages, <<>>,
                                  EmptyMetadata)]
    /\ pc' = "done"
    /\ UNCHANGED <<min_priority, notebook_type, caller, provider, credentials,
                   error, orderVars, genVars, image_chunks, chunk_results,
                   actual_total_pages, vision_calls,
                   parseVars, lectureVars>>

\* aggregate_chunk_analyses: if not chunk_results: raise ValueError
RaiseNoChunkResults ==
    /\ pc = "chunks"
    /\ Len(chunk_results) = Len(image_chunks)
    /\ chunk_results = <<>>
    /\ error' = "ValueError: No chunk results to aggregate"
    /\ pc' = "raised"
    /\ UNCHANGED <<inputVars, orderVars, genVars, aggVars,
                   parseVars, lectureVars>>

\* the chunks are aggregated, the analysis is written and returned
SaveAnalysis ==
    /\ pc = "chunks"
    /\ Len(chunk_results) = Len(image_chunks)
    /\ chunk_results # <<>>
    /\ analysis' = AggregateChunkAnalyses(chunk_results, actual_total_pages)
    /\ artifact_file' =
          [exists |-> TRUE,
           content |-> AggregateChunkAnalyses(chunk_results, actual_total_pages)]
    /\ pc' = "done"
    /\ UNCHANGED <<min_priority, notebook_type, caller, provider, credentials,
                   error, orderVars, genVars, image_chunks, chunk_results,
                   actual_total_pages, vision_calls,
                   parseVars, lectureVars>>

(***************************************************************************)
(* utils.py: process_lecture.  The calls it makes run as the actions above: *)
(* caller names the function running, pc its position, and lecture_pc the  *)
(* position of process_lecture itself.  The paths are tabulated for the     *)
(* input files the model uses.                                              *)
(***************************************************************************)
LecturePaths == {"lecture.pdf", "lecture.PDF", "notes.txt"}

\* input_file.suffix.lower()
SuffixLower(path) ==
    CASE path = "lecture.pdf" -> ".pdf"
      [] path = "lecture.PDF" -> ".pdf"
      [] path = "notes.txt" -> ".txt"

\* input_file.with_suffix(".analysis.json")
AnalysisPath(path) ==
    CASE path = "lecture.pdf" -> "lecture.analysis.json"
      [] path = "lecture.PDF" -> "lecture.analysis.json"
      [] path = "notes.txt" -> "notes.analysis.json"

\* output_dir / f"{input_file.stem}_instructor.ipynb", and _student
InstructorPath(path) ==
    CASE path = "lecture.pdf" -> "output/lecture_instructor.ipynb"
      [] path = "lecture.PDF" -> "output/lecture_instructor.ipynb"
      [] path = "notes.txt" -> "output/notes_instructor.ipynb"

StudentPath(path) ==
    CASE path = "lecture.pdf" -> "output/lecture_student.ipynb"
      [] path = "lecture.PDF" -> "output/lecture_student.ipynb"
      [] path = "notes.txt" -> "output/notes_student.ipynb"

\* LectureAnalysis(**data): the fields without default must be there
RequiredFields == {"lecture_title", "total_pages", "sections"}
ValidAnalysisData(data) == RequiredFields \subseteq DOMAIN data

\* generation_provider with the default of the name of the provider in place
\* of analysis_provider
GenerationProviderDefault ==
    IF generation_provider = None THEN "google" ELSE generation_provider

\* if generation_provider is None: generation_provider = analysis_provider
GenerationProvider ==
    IF generation_provider = None THEN analysis_provider ELSE generation_provider

\* if not input_file.exists(): raise FileNotFoundError
RaiseInputNotFound ==
    /\ caller = "process"
    /\ lecture_pc = "start"
    /\ ~input_file.exists
    /\ error' = "FileNotFoundError: Input file not found"
    /\ lecture_pc' = "raised"
    /\ UNCHANGED <<inputVars, pc, orderVars, genVars, aggVars, parseVars, input_file,
                   analysis_provider, generation_provider, loads, generate_calls,
                   notebooks, result>>

\* process_lecture without the check of the suffix: the input goes to the
\* analysis whatever it is
RaiseUnsupportedFormatMissing ==
    /\ caller = "process"
    /\ lecture_pc = "start"
    /\ input_file.exists
    /\ SuffixLower(input_file.path) # ".pdf"
    /\ caller' = "analyze"
    /\ provider' = analysis_provider
    /\ lecture_pc' = "analysis"
    /\ UNCHANGED <<analysis, min_priority, notebook_type, credentials, pc, error,
                   orderVars, genVars, aggVars, parseVars, input_file,
                   analysis_provider, generation_provider, loads, generate_calls,
                   notebooks, result>>

\* if input_file.suffix.lower() != ".pdf": raise ValueError
RaiseUnsupportedFormat ==
    /\ caller = "process"
    /\ lecture_pc = "start"
    /\ input_file.exists
    /\ SuffixLower(input_file.path) # ".pdf"
    /\ error' = "ValueError: Two-phase workflow only supports PDF files"
    /\ lecture_pc' = "raised"
    /\ UNCHANGED <<inputVars, pc, orderVars, genVars, aggVars, parseVars, input_file,
                   analysis_provider, generation_provider, loads, generate_calls,
                   notebooks, result>>

\* the input passed both checks
InputAccepted ==
    /\ caller = "process"
    /\ lecture_pc = "start"
    /\ input_file.exists
    /\ SuffixLower(input_file.path) = ".pdf"

\* the call generate_notebook_from_analysis(analysis=a, output_path=path,
\* notebook_type=kind, min_priority=min_priority, provider=generation_provider)
CallGenerate(a, path, kind) ==
    /\ caller' = "generate"
    /\ analysis' = a
    /\ notebook_type' = kind
    /\ provider' = GenerationProvider
    /\ pc' = "start"
    /\ generate_calls' = Append(generate_calls,
            [analysis |-> a, output_path |-> path, notebook_type |-> kind,
             min_priority |-> min_priority, provider |-> GenerationProvider])
    /\ dep_sections' = <<>>
    /\ ordered' = <<>>
    /\ visited' = {}
    /\ stack' = <<>>
    /\ oi' = 1
    /\ code_sections' = <<>>
    /\ ordered_sections' = <<>>
    /\ gi' = 1
    /\ all_cells_text' = <<>>
    /\ outcomes' = <<>>
    /\ notebook_file' = NoFile
    /\ UNCHANGED <<min_priority, credentials, error, llm_calls>>

\* process_lecture with analyze_pdf called whether or not the artifact is there
LoadAnalysisIgnored ==
    /\ InputAccepted
    /\ artifact_file.exists
    /\ caller' = "analyze"
    /\ provider' = analysis_provider
    /\ lecture_pc' = "analysis"
    /\ UNCHANGED <<analysis, min_priority, notebook_type, credentials, pc, error,
                   orderVars, genVars, aggVars, parseVars, input_file,
                   analysis_provider, generation_provider, loads, generate_calls,
                   notebooks, result>>

\* if analysis_path.exists(): analysis = load_analysis_from_file(analysis_path),
\* then the call that generates the instructor notebook
LoadAnalysis ==
    /\ InputAccepted
    /\ artifact_file.exists
    /\ ValidAnalysisData(artifact_file.content)
    /\ loads' = loads + 1
    /\ lecture_pc' = "instructor"
    /\ CallGenerate(artifact_file.content, InstructorPath(input_file.path),
                    "instructor")
    /\ UNCHANGED <<aggVars, parseVars, input_file, analysis_provider,
                   generation_provider, notebooks, result>>

\* load_analysis_from_file raises: the data of the file is no LectureAnalysis
LoadAnalysisFails ==
    /\ InputAccepted
    /\ artifact_file.exists
    /\ ~ValidAnalysisData(artifact_file.content)
    /\ loads' = loads + 1
    /\ error' = "ValidationError"
    /\ lecture_pc' = "raised"
    /\ UNCHANGED <<inputVars, pc, orderVars, genVars, aggVars, parseVars, input_file,
                   analysis_provider, generation_provider, generate_calls,
                   notebooks, result>>

\* else: analyze_pdf(pdf_path=input_file, output_path=analysis_path,
\* provider=analysis_provider) is called
CallAnalyzePdf ==
    /\ InputAccepted
    /\ ~artifact_file.exists
    /\ caller' = "analyze"
    /\ provider' = analysis_provider
    /\ lecture_pc' = "analysis"
    /\ UNCHANGED <<analysis, min_priority, notebook_type, credentials, pc, error,
                   orderVars, genVars, aggVars, parseVars, input_file,
                   analysis_provider, generation_provider, loads, generate_calls,
                   notebooks, result>>

\* analyze_pdf returned: the call that generates the instructor notebook
AnalyzePdfReturns ==
    /\ lecture_pc = "analysis"
    /\ caller = "analyze"
    /\ pc = "done"
    /\ lecture_pc' = "instructor"
    /\ CallGenerate(analysis, InstructorPath(input_file.path), "instructor")
    /\ UNCHANGED <<aggVars, parseVars, input_file, analysis_provider,
                   generation_provider, loads, notebooks, result>>

\* the file written at a path
WriteFile(files, path, file) ==
    [at \in DOMAIN files \cup {path} |-> IF at = path THEN file ELSE files[at]]

\* the instructor notebook is written: the call that generates the student
\* notebook
InstructorReturns ==
    /\ lecture_pc = "instructor"
    /\ caller = "generate"
    /\ pc = "done"
    /\ notebooks' = WriteFile(notebooks, InstructorPath(input_file.path),
                              notebook_file)
    /\ lecture_pc' = "student"
    /\ CallGenerate(analysis, StudentPath(input_file.path), "student")
    /\ UNCHANGED <<aggVars, parseVars, input_file, analysis_provider,
                   generation_provider, loads, result>>

\* the student notebook is written: return {"analysis": ..., "instructor":
\* ..., "student": ...}
StudentReturns ==
    /\ lecture_pc = "student"
    /\ caller = "generate"
    /\ pc = "done"
    /\ notebooks' = WriteFile(notebooks, StudentPath(input_file.path),
                              notebook_file)
    /\ result' = [analysis |-> AnalysisPath(input_file.path),
                  instructor |-> InstructorPath(input_file.path),
                  student |-> StudentPath(input_file.path)]
    /\ lecture_pc' = "returned"
    /\ UNCHANGED <<inputVars, pc, error, orderVars, genVars, aggVars, parseVars,
                   input_file, analysis_provider, generation_provider, loads,
                   generate_calls>>

\* analyze_pdf or generate_notebook_from_analysis raised: process_lecture
\* catches nothing
CallRaises ==
    /\ lecture_pc \in {"analysis", "instructor", "student"}
    /\ pc = "raised"
    /\ lecture_pc' = "raised"
    /\ UNCHANGED <<inputVars, pc, error, orderVars, genVars, aggVars, parseVars,
                   input_file, analysis_provider, generation_provider, loads,
                   generate_calls, notebooks, result>>

(***************************************************************************)
(* The analyses the ordering is checked on.                                *)
(***************************************************************************)
AllIds == <<"c", "a", "d", "b", "e">>
DanglingId == "zz"

SectionTitle(id) ==
    CASE id = "c" -> "About c" [] id = "a" -> "About a" [] id = "d" -> "About d"
      [] id = "b" -> "About b" [] id = "e" -> "About e"

PagesChoices == {<<>>, <<2, 1>>}

\* the priorities of the sections with code alternate between 5 and 7
OrderPriority(i) == IF i % 2 = 1 THEN 5 ELSE 7

\* no dependency, one (the section itself, the next or the previous section
\* of the document, an id of no section), or every other section in document
\* order
OrderDependencies(n, i) ==
    {<<>>, <<AllIds[i]>>, <<AllIds[(i % n) + 1]>>, <<AllIds[((i + n - 2) % n) + 1]>>,
     <<DanglingId>>}
        \cup {SelectSeq(SubSeq(AllIds, 1, n), LAMBDA d : d # AllIds[i])}

\* the sections at position i of n: one without code (get_code_sections
\* reads nothing else of it), and those with code
OrderSections(n, i) ==
    {MkSection(AllIds[i], SectionTitle(AllIds[i]), <<>>,
               [has_code |-> FALSE, priority |-> 10], <<>>)}
        \cup {MkSection(AllIds[i], SectionTitle(AllIds[i]), pages,
                        [has_code |-> TRUE, priority |-> OrderPriority(i)], deps) :
                 pages \in PagesChoices, deps \in OrderDependencies(n, i)}

RECURSIVE OrderSectionLists(_, _)
OrderSectionLists(n, i) ==
    IF i = 0 THEN {<<>>}
    ELSE {Append(front, section) :
             front \in OrderSectionLists(n, i - 1), section \in OrderSections(n, i)}

\* the analyses of n sections
OrderAnalyses(n) ==
    {MkAnalysis("Lecture A", 2, sections, EmptyMetadata) :
        sections \in OrderSectionLists(n, n)}

IdleGen ==
    /\ code_sections = <<>>
    /\ ordered_sections = <<>>
    /\ gi = 1
    /\ all_cells_text = <<>>
    /\ outcomes = <<>>
    /\ notebook_file = NoFile
    /\ llm_calls = 0

IdleOrder ==
    /\ dep_sections = <<>>
    /\ ordered = <<>>
    /\ visited = {}
    /\ stack = <<>>
    /\ oi = 1

IdleAgg ==
    /\ image_chunks = <<>>
    /\ chunk_results = <<>>
    /\ actual_total_pages = 0
    /\ vision_calls = <<>>

IdleParse ==
    /\ markup = EmptyText
    /\ nb_cells = <<>>
    /\ nb_before = <<>>

\* process_lecture is not running
IdleLecture ==
    /\ input_file = [path |-> "lecture.pdf", exists |-> TRUE]
    /\ analysis_provider = "google"
    /\ generation_provider = None
    /\ lecture_pc = "idle"
    /\ loads = 0
    /\ generate_calls = <<>>
    /\ notebooks = <<>>
    /\ result = None

(***************************************************************************)
(* The analyses and the answers of the model the generation is checked on. *)
(***************************************************************************)
CodeLine(id) ==
    CASE id = "c" -> "c = 1" [] id = "a" -> "a = 1" [] id = "d" -> "d = 1"
      [] id = "b" -> "b = 1" [] id = "e" -> "e = 1"

AboutLine(id) ==
    CASE id = "c" -> "# About c" [] id = "a" -> "# About a" [] id = "d" -> "# About d"
      [] id = "b" -> "# About b" [] id = "e" -> "# About e"

\* what llm.generate may answer for a section: a markdown and a code cell; a
\* code cell with an import; the whole answer wrapped in a fence; a code cell
\* and a fence left open at the end; a markdown cell of one empty comment
\* line and a fence left open at the end; a sentence before the first marker
Responses ==
    [id \in Range(AllIds) |->
        {<<MarkdownMarker, AboutLine(id), CodeMarker, CodeLine(id)>>,
         <<CodeMarker, "import os", CodeLine(id)>>,
         <<FencePython, CodeMarker, CodeLine(id), Fence, "">>,
         <<CodeMarker, CodeLine(id), Fence>>,
         <<MarkdownMarker, "#", Fence>>,
         <<"Here is the code:", CodeMarker, CodeLine(id)>>}]

MinPriorities == {3, 5, 6}
GenEligibility == {[has_code |-> TRUE, priority |-> 3],
                   [has_code |-> TRUE, priority |-> 5],
                   [has_code |-> FALSE, priority |-> 10]}
\* the first section may depend on the second, which then comes before it
GenDependencies(n, i) == IF i = 1 THEN {<<>>, <<AllIds[2]>>} ELSE {<<>>}

GenSections(n, i) ==
    {MkSection(AllIds[i], SectionTitle(AllIds[i]), <<i>>, e, deps) :
        e \in GenEligibility, deps \in GenDependencies(n, i)}

RECURSIVE GenSectionLists(_, _)
GenSectionLists(n, i) ==
    IF i = 0 THEN {<<>>}
    ELSE {Append(front, section) :
             front \in GenSectionLists(n, i - 1), section \in GenSections(n, i)}

\* the analyses of n sections, each on the page of its position
GenAnalyses(n) ==
    {MkAnalysis("Lecture A", n, sections, EmptyMetadata) :
        sections \in GenSectionLists(n, n)}

InitGen ==
    /\ analysis \in GenAnalyses(MaxSections)
    /\ min_priority \in MinPriorities
    /\ notebook_type \in {"instructor", "student"}
    /\ caller = "generate"
    /\ provider = "google"
    /\ credentials \in {{}, {"google"}}
    /\ pc = "start"
    /\ error = NoError
    /\ IdleOrder
    /\ IdleGen
    /\ IdleAgg
    /\ artifact_file = NoFile
    /\ IdleParse
    /\ IdleLecture

NextGen ==
    \/ GenerateNotebookFromAnalysis
    \/ VisitSection
    \/ VisitDependency
    \/ VisitAppend
    \/ RaiseNoCodeSections
    \/ BeginSectionLoop
    \/ GenerateSection(Responses)
    \/ GenerateSectionFails
    \/ WriteNotebook

SpecGen == InitGen /\ [][NextGen]_vars

(***************************************************************************)
(* The documents and the chunk results the analysis is checked on.         *)
(***************************************************************************)
PageCounts == 0..MaxPages
ChunkSizes == {2, DefaultChunkSize}

MetadataA == [course |-> "CS101"]
CodeAtFive == [has_code |-> TRUE, priority |-> 5]
SectionC1 == MkSection("c", "first c", <<1>>, CodeAtFive, <<>>)
SectionC2 == MkSection("c", "second c", <<2>>, CodeAtFive, <<>>)
SectionA == MkSection("a", "About a", <<2>>, CodeAtFive, <<"c">>)

\* the dicts a chunk may come back as: any of the keys may be missing
ChunkAnalyses ==
    LET full == {[lecture_title |-> t, metadata |-> MetadataA, total_pages |-> p,
                  sections |-> s] :
                    t \in {"Lecture A", "Lecture B"},
                    p \in {1, 7},
                    s \in {<<>>, <<SectionC1>>, <<SectionC2>>,
                           <<SectionC1, SectionC2>>, <<SectionA, SectionC2>>,
                           <<SectionC2, SectionA>>}}
        keys == {{"lecture_title", "metadata", "total_pages", "sections"},
                 {"lecture_title", "total_pages", "sections"},
                 {"metadata", "sections"},
                 {"lecture_title", "metadata", "total_pages"}}
    IN {[k \in K |-> d[k]] : d \in full, K \in keys}

\* Literal["anthropic", "google", "openai", "openrouter"]
Providers == {"anthropic", "google", "openai", "openrouter"}

InitAgg ==
    /\ analysis = NoAnalysis
    /\ min_priority = DefaultMinPriority
    /\ notebook_type = "instructor"
    /\ caller = "analyze"
    /\ provider \in Providers
    /\ credentials \in {{}, Providers}
    /\ pc = "start"
    /\ error = NoError
    /\ IdleOrder
    /\ IdleGen
    /\ IdleAgg
    /\ artifact_file = NoFile
    /\ IdleParse
    /\ IdleLecture

NextAgg ==
    \/ AnalyzePdf(PageCounts, ChunkSizes)
    \/ AnalyzeChunk(ChunkAnalyses)
    \/ AnalyzeChunkFails
    \/ RaiseNoChunkResults
    \/ SaveAnalysis

SpecAgg == InitAgg /\ [][NextAgg]_vars

InitOrder ==
    /\ analysis \in OrderAnalyses(MaxSections)
    /\ min_priority = DefaultMinPriority
    /\ notebook_type = "instructor"
    /\ caller = "order"
    /\ provider = "google"
    /\ credentials = {"google"}
    /\ pc = "start"
    /\ error = NoError
    /\ IdleOrder
    /\ IdleGen
    /\ IdleAgg
    /\ artifact_file = NoFile
    /\ IdleParse
    /\ IdleLecture

NextOrder ==
    \/ GetDependencyOrder
    \/ VisitSection
    \/ VisitDependency
    \/ VisitAppend
    \/ ReturnOrdered

SpecOrder == InitOrder /\ [][NextOrder]_vars

\* the interpreter runs the call to its end
SpecOrderFair == SpecOrder /\ WF_vars(NextOrder)

(***************************************************************************)
(* The runs of process_lecture: the input file is there or not, a PDF or   *)
(* not; the analysis artifact is missing, holds an analysis, or holds data  *)
(* that is none; the credentials of either provider may be missing.         *)
(***************************************************************************)
LectureInputs == {[path |-> path, exists |-> e] : path \in LecturePaths, e \in BOOLEAN}

SavedAnalysis == MkAnalysis("Lecture B", 2, <<SectionC1, SectionA>>, MetadataA)

Artifacts ==
    {NoFile,
     [exists |-> TRUE, content |-> SavedAnalysis],
     [exists |-> TRUE, content |-> [lecture_title |-> "Lecture B"]]}

\* what a chunk may come back as in these runs
LectureChunkAnalyses ==
    {[lecture_title |-> "Lecture A", total_pages |-> 2, metadata |-> MetadataA,
      sections |-> <<SectionC1>>],
     [lecture_title |-> "Lecture A", total_pages |-> 2,
      sections |-> <<SectionA, SectionC2>>]}

\* what llm.generate may answer for a section in these runs
LectureResponses ==
    [id \in Range(AllIds) |-> {<<CodeMarker, "import os", CodeLine(id)>>}]

InitLecture ==
    /\ analysis = NoAnalysis
    /\ min_priority \in {DefaultMinPriority, 6}
    /\ notebook_type = "instructor"
    /\ caller = "process"
    /\ provider = "google"
    /\ credentials \in {{}, {"google"}, {"google", "anthropic"}}
    /\ pc = "start"
    /\ error = NoError
    /\ IdleOrder
    /\ IdleGen
    /\ IdleAgg
    /\ artifact_file \in Artifacts
    /\ IdleParse
    /\ input_file \in LectureInputs
    /\ analysis_provider \in {"google", "anthropic"}
    /\ generation_provider \in {None, "anthropic"}
    /\ lecture_pc = "start"
    /\ loads = 0
    /\ generate_calls = <<>>
    /\ notebooks = <<>>
    /\ result = None

NextLecture ==
    \/ RaiseInputNotFound
    \/ RaiseUnsupportedFormat
    \/ LoadAnalysis
    \/ LoadAnalysisFails
    \/ CallAnalyzePdf
    \/ AnalyzePdf(PageCounts, ChunkSizes)
    \/ AnalyzeChunk(LectureChunkAnalyses)
    \/ AnalyzeChunkFails
    \/ RaiseNoChunkResults
    \/ SaveAnalysis
    \/ AnalyzePdfReturns
    \/ GenerateNotebookFromAnalysis
    \/ VisitSection
    \/ VisitDependency
    \/ VisitAppend
    \/ RaiseNoCodeSections
    \/ BeginSectionLoop
    \/ GenerateSection(LectureResponses)
    \/ GenerateSectionFails
    \/ WriteNotebook
    \/ InstructorReturns
    \/ StudentReturns
    \/ CallRaises

SpecLecture == InitLecture /\ [][NextLecture]_vars

(***************************************************************************)
(* The texts the parser is checked on: every text of MaxLines lines or     *)
(* fewer made of markers (one of them indented), a code line, comment      *)
(* lines (with and without a space after the hash), blank lines and        *)
(* fences.                                                                 *)
(***************************************************************************)
MarkupLines ==
    {MarkdownMarker, CodeMarker, "  # %%", "c = 1", "# About c", "#",
     "#!shebang", "", "  ", Fence, FencePython}

MarkupTexts(n) == UNION {[1..k -> MarkupLines] : k \in 1..n}

InitParse ==
    /\ analysis = NoAnalysis
    /\ min_priority = DefaultMinPriority
    /\ notebook_type = "instructor"
    /\ caller = "parse"
    /\ provider = "google"
    /\ credentials = {"google"}
    /\ pc = "start"
    /\ error = NoError
    /\ IdleOrder
    /\ IdleGen
    /\ IdleAgg
    /\ artifact_file = NoFile
    /\ markup \in MarkupTexts(MaxLines)
    /\ nb_cells = <<>>
    /\ nb_before = <<>>
    /\ IdleLecture

NextParse == ParseLlmResponse

SpecParse == InitParse /\ [][NextParse]_vars

(***************************************************************************)
(* The notebooks _consolidate_imports is checked on: every notebook of     *)
(* MaxCells cells or fewer, the cells being code cells with import lines,  *)
(* code lines and blank lines, and markdown cells, one of them blank and   *)
(* one with a line that reads like an import.                              *)
(***************************************************************************)
MaxCells == 3

CodeSources ==
    {<<"import os">>,
     <<"c = 1">>,
     <<"import os", "c = 1">>,
     <<"from collections import Counter", "a = 1", "import os", "c = 1">>,
     <<"import os", "  ">>,
     <<"  ">>,
     <<"import numpy as np", "from collections import Counter">>,
     <<"    import os", "import os">>,
     <<"c = 1", "", "a = 1">>}

MarkdownSources == {<<"About c">>, <<"">>, <<"from the lecture">>}

NotebookCellChoices ==
    {[cell_type |-> "code", source |-> source] : source \in CodeSources}
    \cup {[cell_type |-> "markdown", source |-> source] : source \in MarkdownSources}

Notebooks(n) == UNION {[1..k -> NotebookCellChoices] : k \in 0..n}

InitCons ==
    /\ analysis = NoAnalysis
    /\ min_priority = DefaultMinPriority
    /\ notebook_type = "instructor"
    /\ caller = "consolidate"
    /\ provider = "google"
    /\ credentials = {"google"}
    /\ pc = "start"
    /\ error = NoError
    /\ IdleOrder
    /\ IdleGen
    /\ IdleAgg
    /\ artifact_file = NoFile
    /\ markup = EmptyText
    /\ nb_cells \in Notebooks(MaxCells)
    /\ nb_before = <<>>
    /\ IdleLecture

NextCons == ConsolidateImportsCall

SpecCons == InitCons /\ [][NextCons]_vars


(***************************************************************************)
(* Properties of generate_notebook_from_analysis, under SpecGen.           *)
(***************************************************************************)
Returned == pc \in {"done", "raised"}

EligibleIds(minp) ==
    {analysis.sections[i].section_id :
        i \in {i \in 1..Len(analysis.sections) :
                  /\ analysis.sections[i].has_code
                  /\ analysis.sections[i].priority >= minp}}

AttemptedIds == {outcomes[k].section_id : k \in 1..Len(outcomes)}

FailedAt(k) == outcomes[k].raised # None
SomeFailed == \E k \in 1..Len(outcomes) : FailedAt(k)
SomeSucceeded == \E k \in 1..Len(outcomes) : ~FailedAt(k)
AllFailed == outcomes # <<>> /\ \A k \in 1..Len(outcomes) : FailedAt(k)

\* the texts the sections that succeeded returned, in the order of the calls
RECURSIVE SucceededTexts(_)
SucceededTexts(log) ==
    IF log = <<>> THEN <<>>
    ELSE IF Head(log).raised = None
         THEN <<Head(log).section_cells>> \o SucceededTexts(Tail(log))
    ELSE SucceededTexts(Tail(log))

\* C1: when the generation call fails for every eligible section, the run
\* raises an error and no notebook file is written at output_path.
C1_AllSectionsFailedRaises ==
    (Returned /\ AllFailed) =>
        /\ pc = "raised"
        /\ error # NoError
        /\ notebook_file = NoFile

\* a text that holds no fence and opens with a cell marker
PlainText(text) ==
    /\ \A k \in 1..Len(text) : ~ContainsFence(text[k])
    /\ text[1] \in {MarkdownMarker, CodeMarker}

\* the cells of each text taken on its own, one text after the other; the
\* blank line that joins two texts closes the last cell of the first
RECURSIVE CellsTextByText(_)
CellsTextByText(texts) ==
    IF texts = <<>> THEN <<>>
    ELSE IF Len(texts) = 1 THEN ScanLines(texts[1], <<>>, None, <<>>)
    ELSE ScanLines(texts[1] \o <<"">>, <<>>, None, <<>>) \o CellsTextByText(Tail(texts))

C3_AttemptsExactlyEligible ==
    Returned => AttemptedIds = EligibleIds(min_priority)

\* C4: if no section has has_code and priority >= min_priority, the call
\* raises before any LLM generate call and writes no notebook file.
C4_NoEligibleSectionRaises ==
    EligibleIds(min_priority) = {} =>
        /\ llm_calls = 0
        /\ outcomes = <<>>
        /\ notebook_file = NoFile
        /\ pc \notin {"loop", "done"}
        /\ Returned => (pc = "raised" /\ error = "ValueError: No code sections found")

\* the threshold excludes a section that has code, and the call has raised
C4_Witness ==
    /\ pc = "raised"
    /\ EligibleIds(min_priority) = {}
    /\ EligibleIds(1) # {}
    /\ error = "ValueError: No code sections found"

(***************************************************************************)
(* Properties of get_dependency_order, under SpecOrder and SpecOrderFair.  *)
(***************************************************************************)
SectionSet == Range(analysis.sections)
DocPos(s) == CHOOSE i \in 1..Len(analysis.sections) : analysis.sections[i] = s

DepsOfId(id) ==
    UNION {Range(s.dependencies) : s \in {t \in SectionSet : t.section_id = id}}

RECURSIVE ReachableIds(_, _)
ReachableIds(ids, steps) ==
    IF steps = 0 THEN ids
    ELSE ReachableIds(ids \cup UNION {DepsOfId(id) : id \in ids}, steps - 1)

\* some section depends on itself, directly or through other sections
Cyclic ==
    \E s \in SectionSet :
        s.section_id \in ReachableIds(DepsOfId(s.section_id), Len(analysis.sections))

\* the order in which the sections would be generated for a min_priority
GenerationOrder(minp) == OrderedSections(ordered, GetCodeSections(analysis, minp))

\* every section of the document depends on the one before it, and on nothing else
IsChain ==
    \A i \in 1..Len(analysis.sections) :
        analysis.sections[i].dependencies =
            IF i = 1 THEN <<>> ELSE <<analysis.sections[i - 1].section_id>>

\* C5: in an acyclic dependency graph, a generated section that another
\* generated section lists in its dependencies is generated before it; a chain
\* A -> [], B -> [A], C -> [B] is generated as [A, B, C].
C5_DependenciesFirst ==
    (pc = "ordered" /\ ~Cyclic) =>
        \A minp \in 1..10 :
            LET gen == GenerationOrder(minp)
            IN /\ \A i, j \in 1..Len(gen) :
                     gen[j].section_id \in Range(gen[i].dependencies) => j < i
               /\ (IsChain /\ Len(gen) = Len(analysis.sections))
                     => gen = analysis.sections

\* a dependency that sorts after its dependent by page has been placed before it
C5_Witness ==
    /\ pc = "ordered"
    /\ ~Cyclic
    /\ \E i, j \in 1..Len(ordered) :
          /\ ordered[j].section_id \in Range(ordered[i].dependencies)
          /\ FirstPageKey(ordered[j]) > FirstPageKey(ordered[i])
          /\ j < i

Eligible(s) == s.has_code /\ s.priority >= DefaultMinPriority

\* C6: get_dependency_order terminates for every dependency graph (cycles,
\* self-dependencies, ids of no eligible section), and its result holds every
\* eligible section exactly once and nothing else.
C6_TerminatesEachSectionOnce ==
    <>(/\ pc = "ordered"
       /\ \A s \in SectionSet :
             Cardinality({k \in 1..Len(ordered) : ordered[k] = s})
                = IF Eligible(s) THEN 1 ELSE 0
       /\ Range(ordered) \subseteq SectionSet)

\* the call has returned for two eligible sections that depend on each other
C6_Witness ==
    /\ pc = "ordered"
    /\ \E s, t \in SectionSet :
          /\ s # t /\ Eligible(s) /\ Eligible(t)
          /\ t.section_id \in Range(s.dependencies)
          /\ s.section_id \in Range(t.dependencies)
          /\ DanglingId \in UNION {Range(u.dependencies) : u \in SectionSet}
          /\ {s, t} \subseteq Range(ordered)

\* no eligible section lists another eligible section in its dependencies
Independent ==
    \A s, t \in SectionSet :
        (Eligible(s) /\ Eligible(t) /\ s # t)
            => t.section_id \notin Range(s.dependencies)

RECURSIVE InputSections(_)
InputSections(results) ==
    IF results = <<>> THEN <<>>
    ELSE (IF "sections" \in DOMAIN Head(results) THEN Head(results).sections ELSE <<>>)
            \o InputSections(Tail(results))

FirstOccurrence(flat, id) ==
    CHOOSE i \in 1..Len(flat) :
        flat[i].section_id = id /\ \A j \in 1..(i - 1) : flat[j].section_id # id

Analyzed == caller = "analyze" /\ pc = "done"

\* C8: the aggregated document has distinct section_ids; the section kept for
\* an id is its first occurrence in chunk order then in-chunk order; the kept
\* sections are in input order; a duplicate raises no error.
C8_FirstOccurrenceWins ==
    /\ Analyzed =>
          LET out == analysis.sections
              flat == InputSections(chunk_results)
          IN /\ \A i, j \in 1..Len(out) :
                   i # j => out[i].section_id # out[j].section_id
             /\ {out[i].section_id : i \in 1..Len(out)}
                   = {flat[i].section_id : i \in 1..Len(flat)}
             /\ \A i \in 1..Len(out) :
                   out[i] = flat[FirstOccurrence(flat, out[i].section_id)]
             /\ \A i, j \in 1..Len(out) :
                   i < j => FirstOccurrence(flat, out[i].section_id)
                               < FirstOccurrence(flat, out[j].section_id)
    /\ (caller = "analyze" /\ pc = "raised") =>
          (chunk_results = <<>> \/ Len(chunk_results) < Len(image_chunks))

\* a section_id came twice in one chunk and again in a later chunk
C8_Witness ==
    /\ Analyzed
    /\ Len(chunk_results) = 2
    /\ Get(chunk_results[1], "sections", <<>>) = <<SectionC1, SectionC2>>
    /\ Get(chunk_results[2], "sections", <<>>) = <<SectionA, SectionC2>>
    /\ analysis.sections = <<SectionC1, SectionA>>

\* C9: the aggregated lecture_title and metadata are those of the first chunk,
\* whatever the later chunks carry.
C9_TitleAndMetadataOfFirstChunk ==
    Analyzed =>
        /\ "lecture_title" \in DOMAIN chunk_results[1]
              => analysis.lecture_title = chunk_results[1].lecture_title
        /\ "metadata" \in DOMAIN chunk_results[1]
              => analysis.metadata = chunk_results[1].metadata
        /\ "lecture_title" \notin DOMAIN chunk_results[1]
              => analysis.lecture_title = "Unknown Lecture"
        /\ "metadata" \notin DOMAIN chunk_results[1]
              => analysis.metadata = EmptyMetadata

\* the second chunk carries another title, and metadata the first lacks
C9_Witness ==
    /\ Analyzed
    /\ Len(chunk_results) = 2
    /\ "lecture_title" \in DOMAIN chunk_results[1]
    /\ "lecture_title" \in DOMAIN chunk_results[2]
    /\ chunk_results[1].lecture_title # chunk_results[2].lecture_title
    /\ analysis.lecture_title = chunk_results[1].lecture_title

RECURSIVE ReportedPages(_)
ReportedPages(results) ==
    IF results = <<>> THEN 0
    ELSE (IF "total_pages" \in DOMAIN Head(results)
          THEN Head(results).total_pages ELSE 0) + ReportedPages(Tail(results))

PageImages == UNION {Range(image_chunks[k]) : k \in 1..Len(image_chunks)}

\* C10: the aggregated total_pages is the number of extracted page images,
\* whatever page counts the chunk results report.
C10_TotalPagesIsTrueCount ==
    Analyzed =>
        /\ analysis.total_pages = Cardinality(PageImages)
        /\ artifact_file.content.total_pages = Cardinality(PageImages)

\* the chunks report page counts whose sum and maximum differ from the truth
C10_Witness ==
    /\ Analyzed
    /\ Len(chunk_results) = 2
    /\ \A k \in 1..2 : "total_pages" \in DOMAIN chunk_results[k]
    /\ ReportedPages(chunk_results) # Cardinality(PageImages)
    /\ \A k \in 1..2 : chunk_results[k].total_pages # Cardinality(PageImages)
    /\ analysis.total_pages = Cardinality(PageImages)

(***************************************************************************)
(* Properties of analyze_pdf on its failures, under SpecAgg.               *)
(***************************************************************************)
NoChunkResultsError == "ValueError: No chunk results to aggregate"
Extracted == caller = "analyze" /\ pc \in {"chunks", "done", "raised"}

\* C11: aggregate_chunk_analyses with zero chunk results raises ValueError and
\* returns no document, so analyze_pdf on a document of zero pages never
\* returns, fails with that error without having analyzed anything, and
\* writes no analysis artifact.
C11_NoChunkResultsRaises ==
    (Extracted /\ image_chunks = <<>>) =>
        /\ pc # "done"
        /\ analysis = NoAnalysis
        /\ artifact_file = NoFile
        /\ vision_calls = <<>>
        /\ pc = "raised" => error = NoChunkResultsError

C11_Witness ==
    /\ Extracted
    /\ actual_total_pages = 0
    /\ image_chunks = <<>>
    /\ pc = "raised"
    /\ error = NoChunkResultsError
    /\ artifact_file = NoFile

\* C12: analyze_pdf analyzes the chunks one at a time in index order; when the
\* analysis of a chunk fails (the model call, or json.loads on the unwrapped
\* response) the call raises that error, the failed call is the last one
\* made, nothing is aggregated and no analysis artifact is written; a
\* document is only returned after every chunk was analyzed.
C12_ChunkFailurePropagates ==
    caller = "analyze" =>
        /\ Len(vision_calls) <= Len(image_chunks)
        /\ \A k \in 1..Len(vision_calls) : vision_calls[k].chunk_index = k - 1
        /\ \A k \in 1..Len(vision_calls) :
              vision_calls[k].raised # None =>
                  /\ k = Len(vision_calls)
                  /\ pc = "raised"
                  /\ error = vision_calls[k].raised
                  /\ analysis = NoAnalysis
                  /\ artifact_file = NoFile
        /\ pc = "done" =>
              /\ Len(vision_calls) = Len(image_chunks)
              /\ \A k \in 1..Len(vision_calls) : vision_calls[k].raised = None

\* the first of two chunks was analyzed, the second failed on its JSON
C12_Witness ==
    /\ caller = "analyze"
    /\ Len(image_chunks) = 2
    /\ Len(vision_calls) = 2
    /\ vision_calls[1].raised = None
    /\ vision_calls[2].raised = "ValueError: LLM returned invalid JSON"
    /\ pc = "raised"
    /\ artifact_file = NoFile

(***************************************************************************)
(* Properties of a run without credentials, under SpecGen and SpecAgg.     *)
(***************************************************************************)
\* in analyze_pdf: the first analyze_pdf_chunk call raises, nothing is written
MissingCredentialsRaisesInAnalysis ==
    (caller = "analyze" /\ ~HasCredentials) =>
        /\ pc # "done"
        /\ artifact_file = NoFile
        /\ \A k \in 1..Len(vision_calls) :
              /\ vision_calls[k].raised = CredentialsMissing
              /\ pc = "raised"
              /\ error = CredentialsMissing

\* in generate_notebook_from_analysis: the first generate_notebook_for_section
\* call raises out of the run, nothing is written
MissingCredentialsRaisesInGeneration ==
    (caller = "generate" /\ ~HasCredentials) =>
        /\ pc # "done"
        /\ notebook_file = NoFile
        /\ \A k \in 1..Len(outcomes) :
              /\ outcomes[k].raised = CredentialsMissing
              /\ pc = "raised"
              /\ error = CredentialsMissing

\* C16: when the chosen provider has no usable credential, the run fails with
\* the credentials-missing error as soon as the provider is built, in the
\* analysis and in the generation: the error is not absorbed as the failure
\* of one section, the run does not go on, and no notebook file is written.
C16_MissingCredentialsRaises ==
    /\ MissingCredentialsRaisesInAnalysis
    /\ MissingCredentialsRaisesInGeneration

(***************************************************************************)
(* Properties of the notebook written, under SpecGen.                      *)
(***************************************************************************)
\* the markdown cell the title text is parsed into begins with the heading
IsTitleCell(cell) ==
    /\ cell.cell_type = "markdown"
    /\ Len(cell.source) >= 1
    /\ cell.source[1] = DropTwo(TitleHeading(analysis.lecture_title))

\* C17: whatever the texts returned for the sections (fenced code blocks
\* included), the first cell of the notebook written is the markdown title
\* cell holding the lecture title, and no other cell is a title cell: every
\* cell made from a section comes after it.
C17_TitleCellFirst ==
    (caller = "generate" /\ notebook_file.exists) =>
        /\ notebook_file.cells # <<>>
        /\ IsTitleCell(notebook_file.cells[1])
        /\ \A k \in 2..Len(notebook_file.cells) : ~IsTitleCell(notebook_file.cells[k])

\* C18: every notebook written, of either kind and after the consolidation
\* of the imports for the instructor, holds at least one cell.
C18_NotebookHasACell ==
    (caller = "generate" /\ notebook_file.exists) =>
        Len(notebook_file.cells) >= 1

(***************************************************************************)
(* Properties of _parse_llm_response_to_notebook, under SpecParse.         *)
(***************************************************************************)
Parsed == caller = "parse" /\ pc = "done"

\* a line the parser takes for a marker
RecognizedMarker(line) == StripLine(line) \in {MarkdownMarker, CodeMarker}
KindOfMarker(line) == IF StripLine(line) = MarkdownMarker THEN "markdown" ELSE "code"
MarkerLines(text) == {i \in 1..Len(text) : RecognizedMarker(text[i])}
FenceFree(text) == \A i \in 1..Len(text) : ~ContainsFence(text[i])

\* C19: a text without any recognized marker parses into exactly one cell,
\* the markdown cell of the format-error notice; and for no text at all is
\* the sequence of cells empty.
C19_NoMarkerGivesErrorCell ==
    Parsed =>
        /\ nb_cells # <<>>
        /\ MarkerLines(markup) = {} => nb_cells = <<ErrorCell>>

\* a text of code and comment lines without marker gave the one error cell
C19_Witness ==
    /\ Parsed
    /\ MarkerLines(markup) = {}
    /\ \E i \in 1..Len(markup) : markup[i] = "c = 1"
    /\ Len(nb_cells) = 1
    /\ nb_cells[1].cell_type = "markdown"
    /\ nb_cells[1].source[1] = "# Error"

\* the block of the marker on line i: the lines after it up to the next marker
\* or the end of the text
BlockOf(text, i) ==
    LET later == {j \in MarkerLines(text) : j > i}
        end == IF later = {} THEN Len(text) ELSE FirstIndex(later) - 1
    IN SubSeq(text, i + 1, end)

EmittingMarkers(text) == {i \in MarkerLines(text) : BlockOf(text, i) # <<>>}

\* the cells are one per marker with a block of one line or more, in the
\* order of the markers and of their kinds, a code cell holding the lines of
\* its block; without such a marker there is the error cell alone
OneCellPerMarker(text, parsed) ==
    LET emitting == EmittingMarkers(text)
        Nth(k) == CHOOSE i \in emitting : Cardinality({j \in emitting : j <= i}) = k
    IN IF emitting = {} THEN parsed = <<ErrorCell>>
       ELSE /\ Len(parsed) = Cardinality(emitting)
            /\ \A k \in 1..Len(parsed) :
                  /\ parsed[k].cell_type = KindOfMarker(text[Nth(k)])
                  /\ parsed[k].cell_type = "code" =>
                        parsed[k].source = BlockOf(text, Nth(k))
                  /\ parsed[k].cell_type = "markdown" =>
                        Len(parsed[k].source) = Len(BlockOf(text, Nth(k)))

\* the lines of a text that ends with a newline: the empty string after the
\* last newline is not counted as a line
LinesOfText(text) ==
    IF Len(text) > 1 /\ text[Len(text)] = "" THEN SubSeq(text, 1, Len(text) - 1)
    ELSE text

\* C20 as stated: for a text without fences the cells are those of the
\* markers and blocks of the lines of the text as given
C20_OneCellPerMarkerOfText ==
    (Parsed /\ FenceFree(markup)) =>
        OneCellPerMarker(LinesOfText(markup), nb_cells)

\* C20: for a text without fences the cells are those of the markers and
\* blocks of the text once stripped (llm_response.strip()): one cell per
\* marker whose block has a line, in marker order and of the marker's kind, a
\* code cell holding its block's lines joined by newlines; the lines before
\* the first marker are in no cell, and a marker followed at once by a marker
\* or by the end of the stripped text gives no cell.
C20_OneCellPerMarkerOfStrippedText ==
    (Parsed /\ FenceFree(markup)) => OneCellPerMarker(StripText(markup), nb_cells)

\* a line before the first marker, two markers in a row, then a code line:
\* one code cell of that line
C20_Witness ==
    /\ Parsed
    /\ FenceFree(markup)
    /\ Len(markup) = 4
    /\ ~RecognizedMarker(markup[1]) /\ ~IsBlankLine(markup[1])
    /\ RecognizedMarker(markup[2])
    /\ RecognizedMarker(markup[3])
    /\ markup[4] = "c = 1"
    /\ nb_cells = <<[cell_type |-> "code", source |-> <<"c = 1">>]>>

(***************************************************************************)
(* Properties of process_lecture, under SpecLecture.                       *)
(***************************************************************************)
InputRejected == ~input_file.exists \/ SuffixLower(input_file.path) # ".pdf"

\* nothing of the analysis phase has run: no page extracted, no chunk analyzed
NoAnalysisCall == image_chunks = <<>> /\ vision_calls = <<>>

\* C13: when the analysis artifact of the input exists as process_lecture is
\* called, the run analyzes no chunk at all, the artifact file stays as it
\* was, and once the input is accepted the analysis is loaded from the
\* artifact (one load): every notebook generation is given the analysis the
\* artifact holds.
C13_ExistingArtifactIsLoaded ==
    \A file \in Artifacts :
        (lecture_pc = "start" /\ artifact_file = file /\ file.exists) =>
            [](/\ artifact_file = file
               /\ NoAnalysisCall
               /\ (~InputRejected /\ lecture_pc # "start") => loads = 1
               /\ \A k \in 1..Len(generate_calls) :
                     /\ loads = 1
                     /\ generate_calls[k].analysis = file.content)

\* the run returned after loading the artifact
C13_Witness ==
    /\ lecture_pc = "returned"
    /\ loads = 1
    /\ artifact_file.exists
    /\ NoAnalysisCall
    /\ Len(generate_calls) = 2

InputErrors ==
    {"FileNotFoundError: Input file not found",
     "ValueError: Two-phase workflow only supports PDF files"}

\* C14: when the input file is missing or its extension is not .pdf (in any
\* case of the letters), process_lecture raises and does nothing else: no
\* page is extracted, no model call is made, no artifact is loaded, no
\* notebook generation is called, and the artifact and the notebooks are as
\* they were.
C14_InvalidInputRaisesFirst ==
    \A file \in Artifacts :
        (lecture_pc = "start" /\ InputRejected /\ artifact_file = file) =>
            [](/\ lecture_pc \in {"start", "raised"}
               /\ lecture_pc = "raised" => error \in InputErrors
               /\ NoAnalysisCall
               /\ llm_calls = 0
               /\ loads = 0
               /\ generate_calls = <<>>
               /\ analysis = NoAnalysis
               /\ artifact_file = file
               /\ notebook_file = NoFile
               /\ notebooks = <<>>)

\* a file that is there but is no PDF was refused, the artifact next to it
\* left alone
C14_Witness ==
    /\ lecture_pc = "raised"
    /\ input_file.exists
    /\ SuffixLower(input_file.path) # ".pdf"
    /\ artifact_file.exists
    /\ error = "ValueError: Two-phase workflow only supports PDF files"
    /\ loads = 0

\* C15: process_lecture calls the generation at most twice, first for the
\* instructor notebook and then for the student notebook, each at its own
\* path, both with the same analysis and the min_priority of the call; when
\* generation_provider is None both use analysis_provider; and the dict
\* returned names the path of the artifact and the paths of the two
\* notebooks, which are all written by then.
C15_InstructorThenStudentSameArguments ==
    lecture_pc # "idle" =>
        /\ Len(generate_calls) <= 2
        /\ \A k \in 1..Len(generate_calls) :
              /\ generate_calls[k].notebook_type = <<"instructor", "student">>[k]
              /\ generate_calls[k].output_path =
                    <<InstructorPath(input_file.path), StudentPath(input_file.path)>>[k]
              /\ generate_calls[k].analysis = generate_calls[1].analysis
              /\ generate_calls[k].min_priority = min_priority
              /\ generation_provider = None =>
                    generate_calls[k].provider = analysis_provider
              /\ generation_provider # None =>
                    generate_calls[k].provider = generation_provider
        /\ lecture_pc = "student" => notebooks[InstructorPath(input_file.path)].exists
        /\ lecture_pc = "returned" =>
              /\ Len(generate_calls) = 2
              /\ result = [analysis |-> AnalysisPath(input_file.path),
                           instructor |-> InstructorPath(input_file.path),
                           student |-> StudentPath(input_file.path)]
              /\ artifact_file.exists
              /\ artifact_file.content = generate_calls[1].analysis
              /\ notebooks[result.instructor].exists
              /\ notebooks[result.student].exists
        /\ lecture_pc # "returned" => result = None

\* a run without generation_provider, analyzed and generated with anthropic
C15_Witness ==
    /\ lecture_pc = "returned"
    /\ generation_provider = None
    /\ analysis_provider = "anthropic"
    /\ Len(generate_calls) = 2
    /\ generate_calls[1].provider = "anthropic"
    /\ generate_calls[2].provider = "anthropic"
    /\ generate_calls[2].notebook_type = "student"

(***************************************************************************)
(* Claims on _consolidate_imports.                                         *)
(***************************************************************************)
Consolidated == caller = "consolidate" /\ pc \in {"done", "again"}

\* the import lines of the code cells of a notebook
ImportsOfCodeCells(cells) ==
    {line \in ImportLines :
        \E i \in 1..Len(cells) :
            /\ cells[i].cell_type = "code"
            /\ \E k \in 1..Len(cells[i].source) : cells[i].source[k] = line}

\* the place of a line in the lexicographic order of the import lines
RankOfLine(line) == CHOOSE r \in 1..Len(ImportLinesSorted) : ImportLinesSorted[r] = line

\* a sequence of lines that holds each line of the set once, smallest first
IsSortedListOf(lines, set) ==
    /\ {lines[k] : k \in 1..Len(lines)} = set
    /\ \A j, k \in 1..Len(lines) : j < k => RankOfLine(lines[j]) < RankOfLine(lines[k])

HoldsImportLine(cell) == \E k \in 1..Len(cell.source) : cell.source[k] \in ImportLines

\* C21: when some code cell holds an import line, the notebook returned has
\* one new code cell, whose lines are the distinct import lines collected from
\* the code cells in lexicographic order; it stands where the first code cell
\* stood: after the cells that preceded the first code cell (those of them
\* that are kept), and before every other code cell; no other code cell
\* holds an import line and no second cell is added.
C21_ImportsCellAtFirstCodeCell ==
    (Consolidated /\ ImportsOfCodeCells(nb_before) # {}) =>
        LET first == FirstIndex({i \in 1..Len(nb_before) : nb_before[i].cell_type = "code"})
            kept_before == SelectSeq(SubSeq(nb_before, 1, first - 1), HasContent)
            at == Len(kept_before) + 1
        IN /\ Len(nb_cells) >= at
           /\ nb_cells[at].cell_type = "code"
           /\ IsSortedListOf(nb_cells[at].source, ImportsOfCodeCells(nb_before))
           /\ SubSeq(nb_cells, 1, at - 1) = kept_before
           /\ \A q \in 1..Len(nb_cells) :
                  (q # at /\ nb_cells[q].cell_type = "code") =>
                      q > at /\ ~HoldsImportLine(nb_cells[q])
           /\ Len(nb_cells) <= Len(nb_before) + 1

\* a markdown cell, then a code cell with two imports between its code lines,
\* then a code cell that repeats one of them: the imports cell is the second
\* cell of the four returned
C21_Witness ==
    /\ caller = "consolidate"
    /\ pc = "done"
    /\ nb_before = <<[cell_type |-> "markdown", source |-> <<"About c">>],
                     [cell_type |-> "code",
                      source |-> <<"from collections import Counter", "a = 1",
                                   "import os", "c = 1">>],
                     [cell_type |-> "code", source |-> <<"import os", "c = 1">>]>>
    /\ Len(nb_cells) = 4
    /\ nb_cells[2] = [cell_type |-> "code",
                      source |-> <<"from collections import Counter", "import os">>]

\* C22: when no code cell holds an import line, the notebook returned is the
\* notebook given: the same cells with the same contents in the same order,
\* none inserted and none removed.
C22_NoImportsUnchanged ==
    (Consolidated /\ ImportsOfCodeCells(nb_before) = {}) => nb_cells = nb_before

(***************************************************************************)
(* Claims on the lines the parser reads.                                   *)
(***************************************************************************)
\* a line that is a marker character for character
ExactMarker(line) == line \in {MarkdownMarker, CodeMarker}
ExactMarkerLines(text) == {i \in 1..Len(text) : ExactMarker(text[i])}

ExactBlockOf(text, i) ==
    LET later == {j \in ExactMarkerLines(text) : j > i}
        end == IF later = {} THEN Len(text) ELSE FirstIndex(later) - 1
    IN SubSeq(text, i + 1, end)

ExactEmittingMarkers(text) ==
    {i \in ExactMarkerLines(text) : ExactBlockOf(text, i) # <<>>}

\* one cell per line equal to a marker that has a block, a code cell holding
\* every line of its block, the lines that are a marker but for their
\* leading or trailing whitespace among them
OneCellPerExactMarker(text, parsed) ==
    LET emitting == ExactEmittingMarkers(text)
        Nth(k) == CHOOSE i \in emitting : Cardinality({j \in emitting : j <= i}) = k
    IN IF emitting = {} THEN parsed = <<ErrorCell>>
       ELSE /\ Len(parsed) = Cardinality(emitting)
            /\ \A k \in 1..Len(parsed) :
                  /\ parsed[k].cell_type =
                        (IF text[Nth(k)] = MarkdownMarker THEN "markdown" ELSE "code")
                  /\ parsed[k].cell_type = "code" =>
                        parsed[k].source = ExactBlockOf(text, Nth(k))
                  /\ parsed[k].cell_type = "markdown" =>
                        Len(parsed[k].source) = Len(ExactBlockOf(text, Nth(k)))

\* C23: a cell starts on a line if and only if the line is equal to the
\* markdown marker or to the code marker: for a text without fences the cells
\* are one per such line of the stripped text, and a line that is a marker
\* only once its leading or trailing whitespace is removed is a line of the
\* open cell.
C23_MarkerIsExactLine ==
    (Parsed /\ FenceFree(markup)) =>
        OneCellPerExactMarker(StripText(markup), nb_cells)

\* what a line of a markdown cell is said to become
VerbatimMarkdownLine(line) ==
    IF StartsWithHashSpace(line) THEN DropTwo(line)
    ELSE IF line = "#" THEN ""
    ELSE line

\* C24: in a markdown cell a line that starts with "# " loses these two
\* characters, a line that is "#" alone becomes the empty line, and every
\* other line, one that starts with "#" and a character other than a space
\* included, is kept as it is: for a text without fences each markdown cell
\* holds the lines of its block changed in this way and in no other.
C24_MarkdownLinesKeepTheirText ==
    (Parsed /\ FenceFree(markup)) =>
        LET text == StripText(markup)
            emitting == EmittingMarkers(text)
            Nth(k) == CHOOSE i \in emitting : Cardinality({j \in emitting : j <= i}) = k
        IN emitting # {} =>
              \A k \in 1..Len(nb_cells) :
                  nb_cells[k].cell_type = "markdown" =>
                      nb_cells[k].source =
                          [n \in 1..Len(BlockOf(text, Nth(k))) |->
                              VerbatimMarkdownLine(BlockOf(text, Nth(k))[n])]

\* the whole text is one fenced block: it opens with a fence line, closes
\* with one, and holds no other
WhollyWrapped(text) ==
    /\ Len(text) >= 2
    /\ ContainsFence(text[1])
    /\ ContainsFence(text[Len(text)])
    /\ \A i \in 2..(Len(text) - 1) : ~ContainsFence(text[i])

\* C25: the fence lines are taken off only when the whole text is wrapped in
\* one fenced block; for any other text, one with a fenced block somewhere
\* inside included, no line is discarded for being outside the fence and
\* every marker of the stripped text gives its cell.
C25_FenceInsideKeepsOutsideLines ==
    (Parsed /\ ~WhollyWrapped(StripText(markup))) =>
        OneCellPerMarker(StripText(markup), nb_cells)

(***************************************************************************)
(* Claims on the notebook as a whole.                                      *)
(***************************************************************************)
Written == caller = "generate" /\ pc = "done" /\ notebook_file # NoFile

\* C26: each cell of the notebook holds lines of one block only, the title
\* block or the text of one section; the lines a section's text has before
\* its first marker are in no cell, not in the last cell of the block before
\* it either: when the texts hold no fence, the cells are the cells of the
\* title block followed by the cells of each text taken on its own, the blank
\* lines at the end of the last block left out (with the imports
\* consolidated over them for the instructor).
C26_CellsHoldOneBlock ==
    (Written /\ \A k \in 2..Len(all_cells_text) : FenceFree(all_cells_text[k])) =>
        LET blocks == [all_cells_text EXCEPT
                          ![Len(all_cells_text)] = StripText(@)]
        IN notebook_file.cells =
              IF notebook_type = "instructor"
              THEN ConsolidateImports(CellsTextByText(blocks))
              ELSE CellsTextByText(blocks)

(***************************************************************************)
(* More claims on _consolidate_imports.                                    *)
(***************************************************************************)
\* a cell as it is said to be left: a code cell without its import lines,
\* the other lines in their order; a markdown cell as it was
LinesLeft(cell) ==
    LET left == SelectSeq(cell.source, LAMBDA line : line \notin ImportLines)
    IN IF cell.cell_type = "code"
       THEN [cell_type |-> "code", source |-> IF left = <<>> THEN <<"">> ELSE left]
       ELSE cell

AllBlank(cell) == \A k \in 1..Len(cell.source) : StripLine(cell.source[k]) = ""

\* the cells returned other than the imports cell, which stands after the
\* kept cells that preceded the first code cell
CellsButImportsCell(before, after) ==
    IF ImportsOfCodeCells(before) = {} THEN after
    ELSE LET first == FirstIndex({i \in 1..Len(before) : before[i].cell_type = "code"})
             at == Len(SelectSeq(SubSeq(before, 1, first - 1), HasContent)) + 1
         IN SubSeq(after, 1, at - 1) \o SubSeq(after, at + 1, Len(after))

C30_ConsolidateImportsIdempotent ==
    (caller = "consolidate" /\ pc = "again") => nb_cells = nb_before

\* the second call found an imports cell, a code cell and a markdown cell,
\* and returned them
C30_Witness ==
    /\ caller = "consolidate"
    /\ pc = "again"
    /\ Len(nb_before) = 3
    /\ nb_before[1] = [cell_type |-> "code",
                       source |-> <<"from collections import Counter", "import os">>]
    /\ nb_before[2] = [cell_type |-> "code", source |-> <<"a = 1", "c = 1">>]
    /\ nb_before[3].cell_type = "markdown"
    /\ nb_cells = nb_before

\* C28: the imports are consolidated for the instructor kind only: the cells
\* of a student notebook are the cells the parser returns for the joined
\* text, every import line still in the cell it was written in; those of an
\* instructor notebook are these cells once consolidated.
C28_StudentNotebookNotConsolidated ==
    Written =>
        LET parsed == ParseLlmResponseToNotebook(JoinTexts(all_cells_text))
        IN notebook_file.cells =
              IF notebook_type = "instructor" THEN ConsolidateImports(parsed)
              ELSE parsed

\* a student notebook with a code cell that begins with its import line
C28_Witness ==
    /\ Written
    /\ notebook_type = "student"
    /\ \E k \in 1..Len(notebook_file.cells) :
          /\ notebook_file.cells[k].cell_type = "code"
          /\ Len(notebook_file.cells[k].source) = 2
          /\ notebook_file.cells[k].source[1] = "import os"

(***************************************************************************)
(* Claims on analyze_pdf_chunk.                                            *)
(***************************************************************************)
\* C29: analyze_pdf_chunk called for openrouter raises an error that says
\* what is wrong (vision analysis is not supported for the provider; or, the
\* provider having no credentials, that no key was found) and llm.generate is
\* not invoked; called for google, anthropic or openai, the content of the
\* message it gives to llm.generate is the prompt, then one image part for
\* each page of the chunk, in the order of the pages, and nothing else.
C29_MessageContentPerProvider ==
    caller = "analyze" =>
        \A k \in 1..Len(vision_calls) :
            LET call == vision_calls[k]
                pages == image_chunks[call.chunk_index + 1]
            IN /\ provider = "openrouter" =>
                     /\ ~call.generated
                     /\ call.raised \in {VisionNotSupported, CredentialsMissing}
                     /\ provider \in credentials => call.raised = VisionNotSupported
               /\ (provider \in {"google", "anthropic", "openai"} /\ call.generated) =>
                     /\ Len(call.content) = 1 + Len(pages)
                     /\ call.content[1].type \in {"str", "text"}
                     /\ \A j \in 1..Len(pages) :
                           /\ call.content[j + 1].type \in {"PIL.Image", "image", "image_url"}
                           /\ call.content[j + 1].page = pages[j]
               /\ (provider \in {"google", "anthropic", "openai"}
                      /\ provider \in credentials) => call.generated

\* a second chunk of one page was sent to openai after a first of two pages:
\* the prompt, page 1, page 2; then the prompt, page 3
C29_Witness ==
    /\ caller = "analyze"
    /\ provider = "openai"
    /\ Len(vision_calls) = 2
    /\ vision_calls[1].content =
          <<[type |-> "text"], [type |-> "image_url", page |-> 1],
            [type |-> "image_url", page |-> 2]>>
    /\ vision_calls[2].generated
    /\ vision_calls[2].content =
          <<[type |-> "text"], [type |-> "image_url", page |-> 3]>>

\* the call for openrouter, with credentials, raised before llm.generate
C29_WitnessNotSupported ==
    /\ caller = "analyze"
    /\ provider = "openrouter"
    /\ provider \in credentials
    /\ Len(vision_calls) = 1
    /\ vision_calls[1].raised = VisionNotSupported
    /\ ~vision_calls[1].generated
    /\ pc = "raised"

=============================================================================
